---- MODULE Spec2Model ----
(***************************************************************************)
(* Model of the conjure-rust code generator's Context (type capability     *)
(* classification with its memoization cells) and of the alias and object  *)
(* emitters that consume it.                                               *)
(*                                                                         *)
(* A Type is a tuple whose first component is the variant tag:             *)
(*   <<"Primitive", p>>, <<"Optional", item>>, <<"List", item>>,           *)
(*   <<"Set", item>>, <<"Map", key, value>>, <<"Reference", name>>,        *)
(*   <<"External", fallback>>.                                             *)
(* A TypeDefinition is <<"Alias", inner>>, <<"Enum">>,                     *)
(*   <<"Object", fields>> or <<"Union", variants>>, where fields and       *)
(*   variants are sequences of <<field_name, type>> pairs.                 *)
(* An Option<T> is the empty sequence (None) or a one-element sequence.    *)
(***************************************************************************)
EXTENDS Integers, Sequences, FiniteSets, TLC

VARIABLES
    types,            \* Context.types: TypeName -> TypeDefinition (never mutated)
    names,            \* TypeName::name of every declared TypeName
    package,          \* TypeName::package of every declared TypeName
    strip_prefix,     \* Context.strip_prefix: the module path of the prefix
    has_double_cell,  \* TypeContext.has_double: Cell<Option<bool>> per TypeName
    is_copy_cell,     \* TypeContext.is_copy: Cell<Option<bool>> per TypeName
    evals,            \* ghost: how often ref_has_double evaluated each definition
    writes,           \* ghost: how often each cell was written (has_double, is_copy)
    out,              \* the last operation, its arguments and what it returned
    crashed           \* the generator process died (stack overflow or panic)

vars == <<types, names, package, strip_prefix, has_double_cell, is_copy_cell, evals, writes, out, crashed>>

(***************************************************************************)
(* Bounds of the model.                                                    *)
(***************************************************************************)
\* Frames a call chain may use before the stack overflows.
StackLimit == 24
\* Largest number of fields of the objects of the constructor documents.
MaxFields == 4

(***************************************************************************)
(* The IR data model.                                                      *)
(***************************************************************************)
Names == {"A", "B", "C"}

PrimitiveType ==
    {"String", "Datetime", "Integer", "Double", "Safelong", "Binary", "Any",
     "Boolean", "Uuid", "Rid", "Bearertoken"}

Primitive(p) == <<"Primitive", p>>
Optional(item) == <<"Optional", item>>
List(item) == <<"List", item>>
Set(item) == <<"Set", item>>
Map(key, value) == <<"Map", key, value>>
Reference(name) == <<"Reference", name>>
External(fallback) == <<"External", fallback>>

Alias(inner) == <<"Alias", inner>>
Enum == <<"Enum">>
Object(fields) == <<"Object", fields>>
Union(variants) == <<"Union", variants>>

None == <<>>
Some(x) == <<x>>

\* A field or variant definition: its name and its type.
Field(name, type) == <<name, type>>
field_name(f) == f[1]
type_(f) == f[2]

\* What a classification returns: an answer, or the stack ran out first.
Ret(v) == [ovf |-> FALSE, res |-> v]
Overflow == [ovf |-> TRUE, res |-> FALSE]

(***************************************************************************)
(* Context: classifications that keep no memo.  Each call takes one stack  *)
(* frame; a chain that needs more than StackLimit frames overflows.        *)
(***************************************************************************)
RECURSIVE needs_box(_, _), ref_needs_box(_, _)

needs_box(def, stack) ==
    IF stack = 0 THEN Overflow
    ELSE CASE def[1] = "Primitive" -> Ret(FALSE)
           [] def[1] = "Optional" -> needs_box(def[2], stack - 1)
           [] def[1] \in {"List", "Set", "Map"} -> Ret(FALSE)
           [] def[1] = "Reference" -> ref_needs_box(def[2], stack - 1)
           [] def[1] = "External" -> needs_box(def[2], stack - 1)

ref_needs_box(name, stack) ==
    IF stack = 0 THEN Overflow
    ELSE LET def == types[name] IN
         CASE def[1] = "Alias" -> needs_box(def[2], stack - 1)
           [] def[1] = "Enum" -> Ret(FALSE)
           [] def[1] \in {"Object", "Union"} -> Ret(TRUE)

RECURSIVE is_required(_, _), ref_is_required(_, _)

is_required(def, stack) ==
    IF stack = 0 THEN Overflow
    ELSE CASE def[1] = "Primitive" -> Ret(TRUE)
           [] def[1] \in {"Optional", "List", "Set", "Map"} -> Ret(FALSE)
           [] def[1] = "Reference" -> ref_is_required(def[2], stack - 1)
           [] def[1] = "External" -> is_required(def[2], stack - 1)

ref_is_required(name, stack) ==
    IF stack = 0 THEN Overflow
    ELSE LET def == types[name] IN
         CASE def[1] = "Alias" -> is_required(def[2], stack - 1)
           [] def[1] \in {"Enum", "Object", "Union"} -> Ret(TRUE)

RECURSIVE is_default(_, _), ref_is_default(_, _)

is_default(def, stack) ==
    IF stack = 0 THEN Overflow
    ELSE CASE def[1] = "Primitive" ->
                Ret(def[2] \in {"String", "Integer", "Double", "Safelong",
                                "Binary", "Boolean"})
           [] def[1] \in {"Optional", "List", "Set", "Map"} -> Ret(TRUE)
           [] def[1] = "Reference" -> ref_is_default(def[2], stack - 1)
           [] def[1] = "External" -> is_default(def[2], stack - 1)

ref_is_default(name, stack) ==
    IF stack = 0 THEN Overflow
    ELSE LET def == types[name] IN
         CASE def[1] = "Alias" -> is_default(def[2], stack - 1)
           [] def[1] \in {"Enum", "Object", "Union"} -> Ret(FALSE)

RECURSIVE is_display(_, _), ref_is_display(_, _)

is_display(def, stack) ==
    IF stack = 0 THEN Overflow
    ELSE CASE def[1] = "Primitive" ->
                Ret(def[2] \in {"String", "Datetime", "Integer", "Double",
                                "Safelong", "Boolean", "Uuid", "Rid"})
           [] def[1] \in {"Optional", "List", "Set", "Map"} -> Ret(FALSE)
           [] def[1] = "Reference" -> ref_is_display(def[2], stack - 1)
           [] def[1] = "External" -> is_display(def[2], stack - 1)

ref_is_display(name, stack) ==
    IF stack = 0 THEN Overflow
    ELSE LET def == types[name] IN
         CASE def[1] = "Alias" -> is_display(def[2], stack - 1)
           [] def[1] = "Enum" -> Ret(TRUE)
           [] def[1] \in {"Object", "Union"} -> Ret(FALSE)

RECURSIVE is_binary(_, _), is_binary_ref(_, _)

is_binary(def, stack) ==
    IF stack = 0 THEN Overflow
    ELSE CASE def[1] = "Primitive" -> Ret(def[2] = "Binary")
           [] def[1] \in {"Optional", "List", "Set", "Map"} -> Ret(FALSE)
           [] def[1] = "Reference" -> is_binary_ref(def[2], stack - 1)
           [] def[1] = "External" -> is_binary(def[2], stack - 1)

is_binary_ref(name, stack) ==
    IF stack = 0 THEN Overflow
    ELSE LET def == types[name] IN
         CASE def[1] = "Alias" -> is_binary(def[2], stack - 1)
           [] def[1] \in {"Enum", "Object", "Union"} -> Ret(FALSE)

RECURSIVE is_plain(_, _), is_plain_ref(_, _)

is_plain(def, stack) ==
    IF stack = 0 THEN Overflow
    ELSE CASE def[1] = "Primitive" -> Ret(def[2] # "Any")
           [] def[1] \in {"Optional", "List", "Set", "Map"} -> Ret(FALSE)
           [] def[1] = "Reference" -> is_plain_ref(def[2], stack - 1)
           [] def[1] = "External" -> is_plain(def[2], stack - 1)

is_plain_ref(name, stack) ==
    IF stack = 0 THEN Overflow
    ELSE LET def == types[name] IN
         CASE def[1] = "Alias" -> is_plain(def[2], stack - 1)
           [] def[1] = "Enum" -> Ret(TRUE)
           [] def[1] \in {"Object", "Union"} -> Ret(FALSE)

RECURSIVE is_iterable(_, _), is_iterable_ref(_, _)

is_iterable(def, stack) ==
    IF stack = 0 THEN Overflow
    ELSE CASE def[1] = "Primitive" -> Ret(FALSE)
           [] def[1] \in {"Optional", "List", "Set", "Map"} -> Ret(TRUE)
           [] def[1] = "Reference" -> is_iterable_ref(def[2], stack - 1)
           [] def[1] = "External" -> is_iterable(def[2], stack - 1)

is_iterable_ref(name, stack) ==
    IF stack = 0 THEN Overflow
    ELSE LET def == types[name] IN
         CASE def[1] = "Alias" -> is_iterable(def[2], stack - 1)
           [] def[1] \in {"Enum", "Object", "Union"} -> Ret(FALSE)

RECURSIVE is_optional(_, _), is_optional_ref(_, _)

is_optional(def, stack) ==
    IF stack = 0 THEN Overflow
    ELSE CASE def[1] \in {"Primitive", "List", "Set", "Map"} -> Ret(None)
           [] def[1] = "Optional" -> Ret(Some(def[2]))
           [] def[1] = "Reference" -> is_optional_ref(def[2], stack - 1)
           [] def[1] = "External" -> is_optional(def[2], stack - 1)

is_optional_ref(name, stack) ==
    IF stack = 0 THEN Overflow
    ELSE LET def == types[name] IN
         CASE def[1] = "Alias" -> is_optional(def[2], stack - 1)
           [] def[1] \in {"Enum", "Object", "Union"} -> Ret(None)

RECURSIVE is_list(_, _), is_list_ref(_, _)

is_list(def, stack) ==
    IF stack = 0 THEN Overflow
    ELSE CASE def[1] = "List" -> Ret(TRUE)
           [] def[1] \in {"Primitive", "Optional", "Set", "Map"} -> Ret(FALSE)
           [] def[1] = "Reference" -> is_list_ref(def[2], stack - 1)
           [] def[1] = "External" -> is_list(def[2], stack - 1)

is_list_ref(name, stack) ==
    IF stack = 0 THEN Overflow
    ELSE LET def == types[name] IN
         CASE def[1] = "Alias" -> is_list(def[2], stack - 1)
           [] def[1] \in {"Enum", "Object", "Union"} -> Ret(FALSE)

RECURSIVE is_set(_, _), is_set_ref(_, _)

is_set(def, stack) ==
    IF stack = 0 THEN Overflow
    ELSE CASE def[1] = "Set" -> Ret(TRUE)
           [] def[1] \in {"Primitive", "Optional", "List", "Map"} -> Ret(FALSE)
           [] def[1] = "Reference" -> is_set_ref(def[2], stack - 1)
           [] def[1] = "External" -> is_set(def[2], stack - 1)

is_set_ref(name, stack) ==
    IF stack = 0 THEN Overflow
    ELSE LET def == types[name] IN
         CASE def[1] = "Alias" -> is_set(def[2], stack - 1)
           [] def[1] \in {"Enum", "Object", "Union"} -> Ret(FALSE)

RECURSIVE option_inner_type(_, _)

\* option_inner_type that looks through a Reference to an Alias.
option_inner_type_through_aliases(def, stack) == is_optional(def, stack)

option_inner_type(def, stack) ==
    IF stack = 0 THEN Overflow
    ELSE CASE def[1] = "Optional" -> Ret(Some(def[2]))
           [] def[1] = "External" -> option_inner_type(def[2], stack - 1)
           [] OTHER -> Ret(None)

(***************************************************************************)
(* Context: the two memoized classifications.  m is the memo as the call   *)
(* finds it: m.cell the cells of the question, m.ev how often each         *)
(* definition has been evaluated, m.wr how often each cell was written.    *)
(* A call returns its answer together with the memo as it leaves it.       *)
(***************************************************************************)
MemoRet(v, m) == [ovf |-> FALSE, res |-> v, m |-> m]
MemoOverflow(m) == [ovf |-> TRUE, res |-> FALSE, m |-> m]

\* Cell::set on the cell of name.
CellSet(m, name, v) ==
    [m EXCEPT !.cell[name] = Some(v), !.wr[name] = @ + 1]

RECURSIVE has_double(_, _, _), ref_has_double(_, _, _), any_has_double(_, _, _, _)

has_double(m, def, stack) ==
    IF stack = 0 THEN MemoOverflow(m)
    ELSE CASE def[1] = "Primitive" -> MemoRet(def[2] = "Double", m)
           [] def[1] \in {"Optional", "List", "Set"} -> has_double(m, def[2], stack - 1)
           [] def[1] = "Map" ->
                LET k == has_double(m, def[2], stack - 1) IN
                IF k.ovf \/ k.res THEN k ELSE has_double(k.m, def[3], stack - 1)
           [] def[1] = "Reference" -> ref_has_double(m, def[2], stack - 1)
           [] def[1] = "External" -> has_double(m, def[2], stack - 1)

\* fields.iter().any(|f| self.has_double(f.type_())), from the i-th field on.
any_has_double(m, fields, i, stack) ==
    IF i > Len(fields) THEN MemoRet(FALSE, m)
    ELSE LET f == has_double(m, type_(fields[i]), stack) IN
         IF f.ovf \/ f.res THEN f ELSE any_has_double(f.m, fields, i + 1, stack)

\* ref_has_double that does not seed the cell before it recurses.
ref_has_double_unseeded(m, name, stack) ==
    IF stack = 0 THEN MemoOverflow(m)
    ELSE IF m.cell[name] # None THEN MemoRet(m.cell[name][1], m)
    ELSE LET m1 == [m EXCEPT !.ev[name] = @ + 1]
             def == types[name]
             r == CASE def[1] = "Alias" -> has_double(m1, def[2], stack - 1)
                    [] def[1] = "Enum" -> MemoRet(FALSE, m1)
                    [] def[1] \in {"Object", "Union"} ->
                         any_has_double(m1, def[2], 1, stack - 1)
         IN  IF r.ovf THEN r ELSE MemoRet(r.res, CellSet(r.m, name, r.res))

ref_has_double(m, name, stack) ==
    IF stack = 0 THEN MemoOverflow(m)
    ELSE IF m.cell[name] # None THEN MemoRet(m.cell[name][1], m)
    ELSE LET seeded == CellSet(m, name, FALSE)    \* break cycles
             m1 == [seeded EXCEPT !.ev[name] = @ + 1]
             def == types[name]
             r == CASE def[1] = "Alias" -> has_double(m1, def[2], stack - 1)
                    [] def[1] = "Enum" -> MemoRet(FALSE, m1)
                    [] def[1] \in {"Object", "Union"} ->
                         any_has_double(m1, def[2], 1, stack - 1)
         IN  IF r.ovf THEN r ELSE MemoRet(r.res, CellSet(r.m, name, r.res))

RECURSIVE is_copy(_, _, _), ref_is_copy(_, _, _)

is_copy(m, def, stack) ==
    IF stack = 0 THEN MemoOverflow(m)
    ELSE CASE def[1] = "Primitive" ->
                MemoRet(def[2] \in {"Datetime", "Integer", "Double", "Safelong",
                                    "Boolean", "Uuid"}, m)
           [] def[1] = "Optional" -> is_copy(m, def[2], stack - 1)
           [] def[1] \in {"List", "Set", "Map"} -> MemoRet(FALSE, m)
           [] def[1] = "Reference" -> ref_is_copy(m, def[2], stack - 1)
           [] def[1] = "External" -> is_copy(m, def[2], stack - 1)

\* ref_is_copy that takes a referenced object for value-copyable.
ref_is_copy_objects(m, name, stack) ==
    IF stack = 0 THEN MemoOverflow(m)
    ELSE IF m.cell[name] # None THEN MemoRet(m.cell[name][1], m)
    ELSE LET m1 == [m EXCEPT !.ev[name] = @ + 1]
             def == types[name]
             r == CASE def[1] = "Alias" -> is_copy(m1, def[2], stack - 1)
                    [] def[1] = "Object" -> MemoRet(TRUE, m1)
                    [] def[1] \in {"Enum", "Union"} -> MemoRet(FALSE, m1)
         IN  IF r.ovf THEN r ELSE MemoRet(r.res, CellSet(r.m, name, r.res))

\* ref_is_copy that takes a referenced enum for value-copyable.
ref_is_copy_enums(m, name, stack) ==
    IF stack = 0 THEN MemoOverflow(m)
    ELSE IF m.cell[name] # None THEN MemoRet(m.cell[name][1], m)
    ELSE LET m1 == [m EXCEPT !.ev[name] = @ + 1]
             def == types[name]
             r == CASE def[1] = "Alias" -> is_copy(m1, def[2], stack - 1)
                    [] def[1] = "Enum" -> MemoRet(TRUE, m1)
                    [] def[1] \in {"Object", "Union"} -> MemoRet(FALSE, m1)
         IN  IF r.ovf THEN r ELSE MemoRet(r.res, CellSet(r.m, name, r.res))

ref_is_copy(m, name, stack) ==
    IF stack = 0 THEN MemoOverflow(m)
    ELSE IF m.cell[name] # None THEN MemoRet(m.cell[name][1], m)
    ELSE LET m1 == [m EXCEPT !.ev[name] = @ + 1]
             def == types[name]
             r == CASE def[1] = "Alias" -> is_copy(m1, def[2], stack - 1)
                    [] def[1] \in {"Enum", "Object", "Union"} -> MemoRet(FALSE, m1)
         IN  IF r.ovf THEN r ELSE MemoRet(r.res, CellSet(r.m, name, r.res))

\* The memo of each question as the Context holds it.
HasDoubleMemo == [cell |-> has_double_cell, ev |-> evals.has_double, wr |-> writes.has_double]
IsCopyMemo == [cell |-> is_copy_cell, ev |-> evals.is_copy, wr |-> writes.is_copy]

(***************************************************************************)
(* Identifiers.  A string is a sequence of one-character strings, so that  *)
(* case conversion and splitting act on its characters.                    *)
(***************************************************************************)
LowerCase == <<"a", "b", "c", "d", "e", "f", "g", "h", "i", "j", "k", "l", "m", "n", "o", "p", "q", "r", "s", "t", "u", "v", "w", "x", "y", "z">>
UpperCase == <<"A", "B", "C", "D", "E", "F", "G", "H", "I", "J", "K", "L", "M", "N", "O", "P", "Q", "R", "S", "T", "U", "V", "W", "X", "Y", "Z">>
Digits == <<"0", "1", "2", "3", "4", "5", "6", "7", "8", "9">>

is_lowercase(c) == \E i \in DOMAIN LowerCase : LowerCase[i] = c
is_uppercase(c) == \E i \in DOMAIN UpperCase : UpperCase[i] = c
is_alphanumeric(c) == is_lowercase(c) \/ is_uppercase(c) \/ \E i \in DOMAIN Digits : Digits[i] = c

to_lowercase(c) ==
    IF is_uppercase(c) THEN LowerCase[CHOOSE i \in DOMAIN UpperCase : UpperCase[i] = c] ELSE c
to_uppercase(c) ==
    IF is_lowercase(c) THEN UpperCase[CHOOSE i \in DOMAIN LowerCase : LowerCase[i] = c] ELSE c

\* The string as one token.
RECURSIVE ToStr(_)
ToStr(s) == IF s = <<>> THEN "" ELSE s[1] \o ToStr(Tail(s))

RECURSIVE split(_, _, _, _)

\* str::split: the pieces of s between the occurrences of sep, the empty
\* pieces included; piece is the piece being read from the i-th character.
split(s, sep, i, piece) ==
    IF i > Len(s) THEN <<piece>>
    ELSE IF s[i] = sep THEN <<piece>> \o split(s, sep, i + 1, <<>>)
    ELSE split(s, sep, i + 1, Append(piece, s[i]))

RECURSIVE unicode_words(_, _, _)

\* The words of s: the maximal runs of letters, digits and underscores that
\* hold a letter or a digit.
unicode_words(s, i, word) ==
    LET done == IF \E j \in DOMAIN word : is_alphanumeric(word[j]) THEN <<word>> ELSE <<>> IN
    IF i > Len(s) THEN done
    ELSE IF is_alphanumeric(s[i]) \/ s[i] = "_" THEN unicode_words(s, i + 1, Append(word, s[i]))
    ELSE done \o unicode_words(s, i + 1, <<>>)

RECURSIVE transform_word(_, _, _, _, _)

\* The case-insensitive pieces of one word: a piece ends before an
\* underscore, between a lowercase and an uppercase character, and before
\* the last of a run of uppercase characters that a lowercase one follows.
\* i is the character read, init the start of the piece being read, mode
\* the case of the characters of the piece so far.
transform_word(word, i, init, mode, acc) ==
    IF i > Len(word) THEN acc
    ELSE LET c == word[i] IN
         IF c = "_"
         THEN transform_word(word, i + 1, IF init = i THEN init + 1 ELSE init, mode, acc)
         ELSE IF i = Len(word) THEN Append(acc, SubSeq(word, init, i))
         ELSE LET next == word[i + 1]
                  next_mode == IF is_lowercase(c) THEN "Lowercase"
                               ELSE IF is_uppercase(c) THEN "Uppercase"
                               ELSE mode
              IN  IF next = "_" \/ (next_mode = "Lowercase" /\ is_uppercase(next))
                  THEN transform_word(word, i + 1, i + 1, "Boundary",
                                      Append(acc, SubSeq(word, init, i)))
                  ELSE IF mode = "Uppercase" /\ is_uppercase(c) /\ is_lowercase(next)
                  THEN transform_word(word, i + 1, i, "Boundary",
                                      Append(acc, SubSeq(word, init, i - 1)))
                  ELSE transform_word(word, i + 1, init, next_mode, acc)

RECURSIVE transform(_, _)

\* The pieces of every word of a string, in order.
transform(words, i) ==
    IF i > Len(words) THEN <<>>
    ELSE transform_word(words[i], 1, 1, "Boundary", <<>>) \o transform(words, i + 1)

lowercase(word) == [i \in DOMAIN word |-> to_lowercase(word[i])]
capitalize(word) ==
    [i \in DOMAIN word |-> IF i = 1 THEN to_uppercase(word[i]) ELSE to_lowercase(word[i])]

RECURSIVE snake_join(_, _)

snake_join(pieces, i) ==
    IF i > Len(pieces) THEN <<>>
    ELSE (IF i > 1 THEN <<"_">> ELSE <<>>) \o lowercase(pieces[i]) \o snake_join(pieces, i + 1)

RECURSIVE camel_join(_, _)

camel_join(pieces, i) ==
    IF i > Len(pieces) THEN <<>>
    ELSE capitalize(pieces[i]) \o camel_join(pieces, i + 1)

\* heck's conversions: lowercase pieces joined by underscores, and
\* capitalized pieces joined by nothing.
to_snake_case(s) == snake_join(transform(unicode_words(s, 1, <<>>), 1), 1)
to_camel_case(s) == camel_join(transform(unicode_words(s, 1, <<>>), 1), 1)

\* The words ident_name takes for keywords.
StrictKeywords ==
    {<<"a", "s">>, <<"b", "r", "e", "a", "k">>, <<"c", "o", "n", "s", "t">>,
     <<"c", "o", "n", "t", "i", "n", "u", "e">>, <<"c", "r", "a", "t", "e">>,
     <<"e", "l", "s", "e">>, <<"e", "n", "u", "m">>,
     <<"e", "x", "t", "e", "r", "n">>, <<"f", "a", "l", "s", "e">>,
     <<"f", "n">>, <<"f", "o", "r">>, <<"i", "f">>, <<"i", "m", "p", "l">>,
     <<"i", "n">>, <<"l", "e", "t">>, <<"l", "o", "o", "p">>,
     <<"m", "a", "t", "c", "h">>, <<"m", "o", "d">>, <<"m", "o", "v", "e">>,
     <<"m", "u", "t">>, <<"p", "u", "b">>, <<"r", "e", "f">>,
     <<"r", "e", "t", "u", "r", "n">>, <<"s", "e", "l", "f">>,
     <<"s", "t", "a", "t", "i", "c">>, <<"s", "t", "r", "u", "c", "t">>,
     <<"s", "u", "p", "e", "r">>, <<"t", "r", "a", "i", "t">>,
     <<"t", "r", "u", "e">>, <<"t", "y", "p", "e">>,
     <<"u", "n", "s", "a", "f", "e">>, <<"u", "s", "e">>,
     <<"w", "h", "e", "r", "e">>, <<"w", "h", "i", "l", "e">>}
ReservedKeywords ==
    {<<"a", "b", "s", "t", "r", "a", "c", "t">>,
     <<"b", "e", "c", "o", "m", "e">>, <<"b", "o", "x">>, <<"d", "o">>,
     <<"f", "i", "n", "a", "l">>, <<"m", "a", "c", "r", "o">>,
     <<"o", "v", "e", "r", "r", "i", "d", "e">>, <<"p", "r", "i", "v">>,
     <<"t", "y", "p", "e", "o", "f">>, <<"u", "n", "s", "i", "z", "e", "d">>,
     <<"v", "i", "r", "t", "u", "a", "l">>, <<"y", "i", "e", "l", "d">>}
WeakKeywords == {<<"u", "n", "i", "o", "n">>, <<"d", "y", "n">>}

\* The match of ident_name on the snake-cased name.
escape_keyword(snake) ==
    LET keyword == snake \in StrictKeywords \cup ReservedKeywords \cup WeakKeywords
    IN  IF keyword THEN Append(snake, "_") ELSE snake

ident_name(s) == escape_keyword(to_snake_case(s))

\* Context::field_name and Context::module_name, on the raw field name and
\* on the name of the type.
field_ident(s) == ident_name(s)
module_name(name) == ident_name(name)

\* The match of type_name on the camel-cased name.
escape_self(camel) ==
    LET keyword == camel = <<"S", "e", "l", "f">>
    IN  IF keyword THEN Append(camel, "_") ELSE camel

type_name(name) == escape_self(to_camel_case(name))

(***************************************************************************)
(* Context: the token streams of types.  A token stream is a term:         *)
(* <<"Option", item>>, <<"Vec", item>>, <<"Box", inner>>, a path           *)
(* <<"super", TypeName>>, or the one-element tuple of a primitive's type.  *)
(***************************************************************************)
\* TypeName::name of a declared TypeName.
name_(type_name_) == names[type_name_]

\* raw_module_path that leaves the components as the package spells them.
raw_module_path_unescaped(package_) == split(package_, ".", 1, <<>>)

\* Iterator::map(module_name).
map_module_name(pieces) == [i \in DOMAIN pieces |-> module_name(pieces[i])]

raw_module_path(package_) == map_module_name(split(package_, ".", 1, <<>>))

\* <[_]>::starts_with.
starts_with(s, prefix) ==
    Len(prefix) <= Len(s) /\ SubSeq(s, 1, Len(prefix)) = prefix

\* module_path that removes as many components as the prefix has, whether
\* the path starts with the prefix or not.
strip_unguarded(raw, prefix) == SubSeq(raw, Len(prefix) + 1, Len(raw))
\* The raw path without the prefix it starts with, if it starts with it.
strip(raw, prefix) ==
    IF starts_with(raw, prefix) THEN SubSeq(raw, Len(prefix) + 1, Len(raw)) ELSE raw

module_path_unguarded(type_name_) ==
    strip_unguarded(raw_module_path(package[type_name_]), strip_prefix)

module_path(type_name_) == strip(raw_module_path(package[type_name_]), strip_prefix)

\* The components of a path as tokens.
tokens_of(path) == [i \in DOMAIN path |-> ToStr(path[i])]

\* The length of the longest common prefix of two paths.
shared_prefix(a, b) ==
    LET shorter == IF Len(a) < Len(b) THEN Len(a) ELSE Len(b) IN
    CHOOSE k \in 0..shorter :
        /\ \A i \in 1..k : a[i] = b[i]
        /\ k < shorter => a[k + 1] # b[k + 1]

\* One super out of the type's own file, one per module of this path that
\* the other path does not share, then the other path's remaining modules
\* and the type.
climb(this_module_path, other_module_path, shared, type_ident) ==
    [i \in 1..(1 + Len(this_module_path) - shared) |-> "super"]
    \o tokens_of(SubSeq(other_module_path, shared + 1, Len(other_module_path)))
    \o <<ToStr(type_ident)>>

relative_path(this_module_path, other_module_path, type_ident) ==
    climb(this_module_path, other_module_path,
          shared_prefix(this_module_path, other_module_path), type_ident)

one_super(other_module_path, type_ident) ==
    <<"super">> \o tokens_of(other_module_path) \o <<ToStr(type_ident)>>

\* type_path that leaves this type's module without climbing out of the
\* modules the two paths do not share.
type_path_one_super(this_type, other_type) ==
    one_super(module_path(other_type), type_name(name_(other_type)))

type_path(this_type, other_type) ==
    relative_path(module_path(this_type), module_path(other_type),
                  type_name(name_(other_type)))

\* The short name of a built-in, or its long form when the type name's
\* type_name is that short name.
prelude_ident(name, short, long) ==
    IF ToStr(type_name(name_(name))) = short THEN long ELSE short

box_ident(name) == prelude_ident(name, "Box", "std::boxed::Box")
option_ident(name) == prelude_ident(name, "Option", "std::option::Option")
string_ident(name) == prelude_ident(name, "String", "std::string::String")
vec_ident(name) == prelude_ident(name, "Vec", "std::vec::Vec")
into_ident(name) == prelude_ident(name, "Into", "std::convert::Into")
into_iterator_ident(name) == prelude_ident(name, "IntoIterator", "std::iter::IntoIterator")

PrimitiveRustType(p) ==
    CASE p = "String" -> <<"String">>
      [] p = "Datetime" -> <<"conjure_object::DateTime<conjure_object::Utc>">>
      [] p = "Integer" -> <<"i32">>
      [] p = "Double" -> <<"f64">>
      [] p = "Safelong" -> <<"conjure_object::SafeLong">>
      [] p = "Binary" -> <<"conjure_object::ByteBuf">>
      [] p = "Any" -> <<"conjure_object::Value">>
      [] p = "Boolean" -> <<"bool">>
      [] p = "Uuid" -> <<"conjure_object::Uuid">>
      [] p = "Rid" -> <<"conjure_object::ResourceIdentifier">>
      [] p = "Bearertoken" -> <<"conjure_object::BearerToken">>

RECURSIVE rust_type(_, _)

rust_type(this_type, def) ==
    CASE def[1] = "Primitive" ->
           IF def[2] = "String" THEN <<string_ident(this_type)>>
           ELSE PrimitiveRustType(def[2])
      [] def[1] = "Optional" -> <<option_ident(this_type), rust_type(this_type, def[2])>>
      [] def[1] = "List" -> <<vec_ident(this_type), rust_type(this_type, def[2])>>
      [] def[1] = "Set" -> <<"BTreeSet", rust_type(this_type, def[2])>>
      [] def[1] = "Map" ->
           <<"BTreeMap", rust_type(this_type, def[2]), rust_type(this_type, def[3])>>
      [] def[1] = "Reference" -> type_path(this_type, def[2])
      [] def[1] = "External" -> rust_type(this_type, def[2])

\* ref_boxed_rust_type that boxes a referenced object whatever the current
\* type is.
ref_boxed_rust_type_boxing_objects(this_type, name, stack) ==
    IF stack = 0 THEN Overflow
    ELSE LET def == types[name]
             boxed == CASE def[1] = "Alias" -> needs_box(def[2], stack - 1)
                        [] def[1] = "Enum" -> Ret(FALSE)
                        [] def[1] \in {"Object", "Union"} -> Ret(TRUE)
             unboxed == type_path(this_type, name)
         IN  IF boxed.ovf THEN Overflow
             ELSE IF boxed.res THEN Ret(<<box_ident(name), unboxed>>) ELSE Ret(unboxed)

ref_boxed_rust_type(this_type, name, stack) ==
    IF stack = 0 THEN Overflow
    ELSE LET def == types[name]
             boxed == CASE def[1] = "Alias" -> needs_box(def[2], stack - 1)
                        [] def[1] = "Enum" -> Ret(FALSE)
                        [] def[1] = "Object" -> Ret(types[this_type][1] # "Union")
                        [] def[1] = "Union" -> Ret(TRUE)
             unboxed == type_path(this_type, name)
         IN  IF boxed.ovf THEN Overflow
             ELSE IF boxed.res THEN Ret(<<box_ident(name), unboxed>>) ELSE Ret(unboxed)

RECURSIVE boxed_rust_type_plain_optionals(_, _, _)

\* boxed_rust_type that stores an optional as rust_type does.
boxed_rust_type_plain_optionals(this_type, def, stack) ==
    IF stack = 0 THEN Overflow
    ELSE CASE def[1] = "Optional" -> Ret(rust_type(this_type, def))
           [] def[1] = "Reference" -> ref_boxed_rust_type(this_type, def[2], stack - 1)
           [] def[1] = "External" ->
                boxed_rust_type_plain_optionals(this_type, def[2], stack - 1)
           [] OTHER -> Ret(rust_type(this_type, def))

RECURSIVE boxed_rust_type(_, _, _)

boxed_rust_type(this_type, def, stack) ==
    IF stack = 0 THEN Overflow
    ELSE CASE def[1] = "Optional" ->
                LET item == boxed_rust_type(this_type, def[2], stack - 1) IN
                IF item.ovf THEN Overflow ELSE Ret(<<option_ident(this_type), item.res>>)
           [] def[1] = "Reference" -> ref_boxed_rust_type(this_type, def[2], stack - 1)
           [] def[1] = "External" -> boxed_rust_type(this_type, def[2], stack - 1)
           [] OTHER -> Ret(rust_type(this_type, def))

(***************************************************************************)
(* Context::setter_bounds: the shape of a setter argument and whether the  *)
(* assigned value is wrapped in Box::new.                                  *)
(***************************************************************************)
\* SetterBounds::Simple, Generic or Collection: argument is argument_type
\* or argument_bound, boxed says that assign_rhs wraps the value in box_,
\* and type_ is the CollectionType of a Collection.
SetterBounds(shape, argument, boxed, box_, collection) ==
    [shape |-> shape, argument |-> argument, boxed |-> boxed, box_ |-> box_,
     type_ |-> collection]

\* CollectionSetterBounds::Simple or Generic.
CollectionSetterBounds(shape, argument) == [shape |-> shape, argument |-> argument]

\* #into_iterator<Item = #item_type>
IntoIteratorOf(this_type, item_type) == <<into_iterator_ident(this_type), "Item", item_type>>

RECURSIVE collection_setter_bounds(_, _)

collection_setter_bounds(this_type, def) ==
    CASE def[1] = "Primitive" ->
           IF def[2] = "String"
           THEN CollectionSetterBounds("Generic",
                    <<into_ident(this_type), <<string_ident(this_type)>>>>)
           ELSE IF def[2] = "Binary"
           THEN CollectionSetterBounds("Generic",
                    <<into_ident(this_type), <<vec_ident(this_type), <<"u8">>>>>>)
           ELSE IF def[2] = "Any"
           THEN CollectionSetterBounds("Generic", <<"conjure_object::serde::Serialize">>)
           ELSE CollectionSetterBounds("Simple", rust_type(this_type, def))
      [] def[1] = "Optional" ->
           CollectionSetterBounds("Generic",
               <<into_ident(this_type),
                 <<option_ident(this_type), rust_type(this_type, def[2])>>>>)
      [] def[1] \in {"List", "Set"} ->
           CollectionSetterBounds("Generic",
               IntoIteratorOf(this_type, rust_type(this_type, def[2])))
      [] def[1] = "Map" ->
           \* the closing '>' comes before the ')' of the pair in the source
           CollectionSetterBounds("Generic",
               <<into_iterator_ident(this_type), "Item", "(",
                 rust_type(this_type, def[2]), rust_type(this_type, def[3]), ">", ")">>)
      [] def[1] = "Reference" ->
           CollectionSetterBounds("Simple", <<"super", ToStr(type_name(name_(def[2])))>>)
      [] def[1] = "External" -> collection_setter_bounds(this_type, def[2])

RECURSIVE setter_bounds_generic_references(_, _, _)

\* setter_bounds that takes a referenced type as anything convertible into
\* it, and every other type plainly.
setter_bounds_generic_references(this_type, def, stack) ==
    IF stack = 0 THEN Overflow
    ELSE CASE def[1] = "Reference" ->
                LET b == ref_needs_box(def[2], stack - 1) IN
                IF b.ovf THEN Overflow
                ELSE Ret(SetterBounds("Generic",
                                      <<into_ident(this_type), type_path(this_type, def[2])>>,
                                      b.res, box_ident(this_type), None))
           [] def[1] = "External" ->
                setter_bounds_generic_references(this_type, def[2], stack - 1)
           [] OTHER -> Ret(SetterBounds("Simple", rust_type(this_type, def), FALSE, None, None))

RECURSIVE setter_bounds(_, _, _)

setter_bounds(this_type, def, stack) ==
    IF stack = 0 THEN Overflow
    ELSE CASE def[1] = "Primitive" ->
                IF def[2] = "String"
                THEN Ret(SetterBounds("Generic",
                             <<into_ident(this_type), <<string_ident(this_type)>>>>,
                             FALSE, None, None))
                ELSE IF def[2] = "Binary"
                THEN Ret(SetterBounds("Generic",
                             <<into_ident(this_type), <<vec_ident(this_type), <<"u8">>>>>>,
                             FALSE, None, None))
                ELSE IF def[2] = "Any"
                THEN Ret(SetterBounds("Generic", <<"conjure_object::serde::Serialize">>,
                                      FALSE, None, None))
                ELSE Ret(SetterBounds("Simple", rust_type(this_type, def), FALSE, None, None))
           [] def[1] = "Optional" ->
                LET b == needs_box(def[2], stack - 1) IN
                IF b.ovf THEN Overflow
                ELSE Ret(SetterBounds("Generic",
                             <<into_ident(this_type),
                               <<option_ident(this_type), rust_type(this_type, def[2])>>>>,
                             b.res, IF b.res THEN box_ident(this_type) ELSE None, None))
           [] def[1] \in {"List", "Set"} ->
                Ret(SetterBounds("Collection",
                        IntoIteratorOf(this_type, rust_type(this_type, def[2])),
                        FALSE, None,
                        <<def[1], collection_setter_bounds(this_type, def[2])>>))
           [] def[1] = "Map" ->
                Ret(SetterBounds("Collection",
                        IntoIteratorOf(this_type, <<"()", rust_type(this_type, def[2]),
                                                    rust_type(this_type, def[3])>>),
                        FALSE, None,
                        <<"Map", collection_setter_bounds(this_type, def[2]),
                          collection_setter_bounds(this_type, def[3])>>))
           [] def[1] = "Reference" ->
                LET b == ref_needs_box(def[2], stack - 1) IN
                IF b.ovf THEN Overflow
                ELSE Ret(SetterBounds("Simple", type_path(this_type, def[2]),
                                      b.res, IF b.res THEN box_ident(this_type) ELSE None,
                                      None))
           [] def[1] = "External" -> setter_bounds(this_type, def[2], stack - 1)

(***************************************************************************)
(* Context: the borrowed form of a type (an accessor's return type) and    *)
(* the expression that borrows a value of it.  Both ask is_copy about the  *)
(* inner type of a referenced alias, so they carry the is_copy memo.       *)
(***************************************************************************)
BorrowedPrimitiveRustType(p) ==
    CASE p = "String" -> <<"&str">>
      [] p = "Binary" -> <<"&[u8]">>
      [] p \in {"Any", "Rid", "Bearertoken"} -> <<"&", PrimitiveRustType(p)>>
      [] OTHER -> PrimitiveRustType(p)

borrowed_rust_type_ref(m, this_type, name, stack) ==
    IF stack = 0 THEN MemoOverflow(m)
    ELSE LET def == types[name]
             path == type_path(this_type, name)
         IN  IF def[1] = "Alias"
             THEN LET c == is_copy(m, def[2], stack - 1) IN
                  IF c.ovf THEN c
                  ELSE MemoRet(IF c.res THEN path ELSE <<"&", path>>, c.m)
             ELSE MemoRet(<<"&", path>>, m)

RECURSIVE borrowed_rust_type(_, _, _, _)

borrowed_rust_type(m, this_type, def, stack) ==
    IF stack = 0 THEN MemoOverflow(m)
    ELSE CASE def[1] = "Primitive" -> MemoRet(BorrowedPrimitiveRustType(def[2]), m)
           [] def[1] = "Optional" ->
                LET item == borrowed_rust_type(m, this_type, def[2], stack - 1) IN
                IF item.ovf THEN item
                ELSE MemoRet(<<option_ident(this_type), item.res>>, item.m)
           [] def[1] = "List" -> MemoRet(<<"&[]", rust_type(this_type, def[2])>>, m)
           [] def[1] \in {"Set", "Map"} -> MemoRet(<<"&", rust_type(this_type, def)>>, m)
           [] def[1] = "Reference" -> borrowed_rust_type_ref(m, this_type, def[2], stack - 1)
           [] def[1] = "External" -> borrowed_rust_type(m, this_type, def[2], stack - 1)

borrow_rust_type_ref(m, value, name, stack) ==
    IF stack = 0 THEN MemoOverflow(m)
    ELSE LET def == types[name] IN
         CASE def[1] = "Alias" ->
                LET b == needs_box(def[2], stack - 1) IN
                IF b.ovf THEN MemoOverflow(m)
                ELSE IF b.res THEN MemoRet(<<"&*", value>>, m)
                ELSE LET c == is_copy(m, def[2], stack - 1) IN
                     IF c.ovf THEN c
                     ELSE MemoRet(IF c.res THEN value ELSE <<"&", value>>, c.m)
           [] def[1] = "Enum" -> MemoRet(<<"&", value>>, m)
           [] def[1] \in {"Object", "Union"} -> MemoRet(<<"&*", value>>, m)

RECURSIVE borrow_rust_type(_, _, _, _)

borrow_rust_type(m, value, def, stack) ==
    IF stack = 0 THEN MemoOverflow(m)
    ELSE CASE def[1] = "Primitive" ->
                MemoRet(IF def[2] \in {"String", "Binary"} THEN <<"&*", value>>
                        ELSE IF def[2] \in {"Any", "Rid", "Bearertoken"} THEN <<"&", value>>
                        ELSE value, m)
           [] def[1] = "Optional" ->
                LET item == borrow_rust_type(m, <<"*o">>, def[2], stack - 1) IN
                IF item.ovf THEN item
                ELSE MemoRet(<<"as_ref().map", value, item.res>>, item.m)
           [] def[1] = "List" -> MemoRet(<<"&*", value>>, m)
           [] def[1] \in {"Set", "Map"} -> MemoRet(<<"&", value>>, m)
           [] def[1] = "Reference" -> borrow_rust_type_ref(m, value, def[2], stack - 1)
           [] def[1] = "External" -> borrow_rust_type(m, value, def[2], stack - 1)

(***************************************************************************)
(* objects::object: the object emitter.                                    *)
(***************************************************************************)
\* The generic parameter names a constructor can hand out.
ParamNames == <<"T", "U", "V">>

\* A limit one too large: an object with four fields gets a constructor.
ConstructorFieldLimitOff == 4 + 1

\* The constructor is emitted for objects with fewer fields than this.
ConstructorFieldLimit == 4

\* objects::fields: the identifiers of the fields of an object.
fields(def) == [i \in 1..Len(def[2]) |-> field_name(def[2][i])]

\* The classification the emitters name is_double: whether the type contains
\* a double (the Context's memoized contains-double question).
is_double(m, def, stack) == has_double(m, def, stack)

\* What a step of an emitter leaves: whether the stack overflowed, whether
\* an unwrap panicked, and its result.
EmitRet(v) == [ovf |-> FALSE, panic |-> FALSE, res |-> v]
EmitOverflow == [ovf |-> TRUE, panic |-> FALSE, res |-> <<>>]
EmitPanic == [ovf |-> FALSE, panic |-> TRUE, res |-> <<>>]

RECURSIVE constructor_fields(_, _, _, _, _, _)

\* One turn of the loop for the i-th field, given whether the field is
\* optional and the setter bounds of the type its argument has.
constructor_argument(this_type, fs, i, used, arguments, stack, optional, bounds) ==
    IF bounds.ovf THEN EmitOverflow
    ELSE IF bounds.res.shape = "Simple"
    THEN constructor_fields(this_type, fs, i + 1, used,
             Append(arguments, [name |-> field_name(fs[i]), shape |-> "Simple",
                                param |-> None, optional |-> optional,
                                boxed |-> bounds.res.boxed]),
             stack)
    ELSE IF used >= Len(ParamNames) THEN EmitPanic  \* param_it.next().unwrap()
    ELSE constructor_fields(this_type, fs, i + 1, used + 1,
             Append(arguments, [name |-> field_name(fs[i]), shape |-> bounds.res.shape,
                                param |-> Some(ParamNames[used + 1]),
                                optional |-> optional,
                                boxed |-> bounds.res.boxed]),
             stack)

\* The i-th field given its option_inner_type: the setter bounds are those
\* of the inner type of an optional field, and of the field's type
\* otherwise.
constructor_field(this_type, fs, i, used, arguments, stack, inner) ==
    IF inner.ovf THEN EmitOverflow
    ELSE constructor_argument(this_type, fs, i, used, arguments, stack, inner.res # None,
             setter_bounds(this_type,
                           IF inner.res # None THEN inner.res[1] ELSE type_(fs[i]),
                           stack))

\* The loop over def.fields() of generate_constructor, from the i-th field
\* on: used counts the names taken from param_it so far.
constructor_fields(this_type, fs, i, used, arguments, stack) ==
    IF i > Len(fs) THEN EmitRet([parameters |-> SubSeq(ParamNames, 1, used),
                                 arguments |-> arguments])
    ELSE constructor_field(this_type, fs, i, used, arguments, stack,
                           option_inner_type(type_(fs[i]), stack))

\* The constructor named new_ whose parameters and arguments the loop left.
constructor_item(new_, body) ==
    IF body.ovf \/ body.panic THEN body
    ELSE EmitRet([new_ |-> new_, parameters |-> body.res.parameters,
                  arguments |-> body.res.arguments])

\* generate_constructor that compares the field names without regard to
\* case.
generate_constructor_any_case(this_type, stack) ==
    IF stack = 0 THEN EmitOverflow
    ELSE constructor_item(
             IF \E i \in 1..Len(types[this_type][2]) :
                    field_name(types[this_type][2][i]) \in {"new", "New"}
             THEN "new_" ELSE "new",
             constructor_fields(this_type, types[this_type][2], 1, 0, <<>>, stack - 1))

generate_constructor(this_type, stack) ==
    IF stack = 0 THEN EmitOverflow
    ELSE constructor_item(
             IF \E i \in 1..Len(types[this_type][2]) :
                    field_name(types[this_type][2][i]) = "new"
             THEN "new_" ELSE "new",
             constructor_fields(this_type, types[this_type][2], 1, 0, <<>>, stack - 1))

RECURSIVE any_is_copy(_, _, _, _)

\* any in place of all: some field is is_copy, from the i-th field on.
any_is_copy(m, fs, i, stack) ==
    IF i > Len(fs) THEN MemoRet(FALSE, m)
    ELSE LET c == is_copy(m, type_(fs[i]), stack) IN
         IF c.ovf \/ c.res THEN c ELSE any_is_copy(c.m, fs, i + 1, stack)

RECURSIVE all_is_copy(_, _, _, _)

\* fields.iter().all(|v| ctx.is_copy(v.type_())), from the i-th field on.
all_is_copy(m, fs, i, stack) ==
    IF i > Len(fs) THEN MemoRet(TRUE, m)
    ELSE LET c == is_copy(m, type_(fs[i]), stack) IN
         IF c.ovf \/ ~c.res THEN c ELSE all_is_copy(c.m, fs, i + 1, stack)

RECURSIVE map_is_double(_, _, _, _, _)

\* The field_attrs iterator: is_double of every field in turn.
map_is_double(m, fs, i, acc, stack) ==
    IF i > Len(fs) THEN MemoRet(acc, m)
    ELSE LET d == is_double(m, type_(fs[i]), stack) IN
         IF d.ovf THEN d ELSE map_is_double(d.m, fs, i + 1, Append(acc, d.res), stack)

RECURSIVE map_boxed_rust_type(_, _, _, _, _)

\* The boxed_types vector: boxed_rust_type of every field in turn.
map_boxed_rust_type(this_type, fs, i, acc, stack) ==
    IF i > Len(fs) THEN Ret(acc)
    ELSE LET b == boxed_rust_type(this_type, type_(fs[i]), stack) IN
         IF b.ovf THEN Overflow
         ELSE map_boxed_rust_type(this_type, fs, i + 1, Append(acc, b.res), stack)

\* str::chars of the field names of the documents.
chars(s) ==
    CASE s = "a" -> <<"a">>
      [] s = "b" -> <<"b">>
      [] s = "c" -> <<"c">>
      [] s = "d" -> <<"d">>
      [] s = "ext" -> <<"e", "x", "t">>
      [] s = "left" -> <<"l", "e", "f", "t">>
      [] s = "lit" -> <<"l", "i", "t">>
      [] s = "m" -> <<"m">>
      [] s = "n" -> <<"n">>
      [] s = "next" -> <<"n", "e", "x", "t">>
      [] s = "obj" -> <<"o", "b", "j">>
      [] s = "opt" -> <<"o", "p", "t">>
      [] s = "pair" -> <<"p", "a", "i", "r">>
      [] s = "right" -> <<"r", "i", "g", "h", "t">>
      [] s = "s" -> <<"s">>
      [] s = "uni" -> <<"u", "n", "i">>
      [] s = "value" -> <<"v", "a", "l", "u", "e">>
      [] s = "new" -> <<"n", "e", "w">>
      [] s = "New" -> <<"N", "e", "w">>
      [] s = "new_" -> <<"n", "e", "w", "_">>
      [] s = "renew" -> <<"r", "e", "n", "e", "w">>
      [] s = "builder" -> <<"b", "u", "i", "l", "d", "e", "r">>
      [] s = "f1" -> <<"f", "1">>
      [] s = "f2" -> <<"f", "2">>
      [] s = "f3" -> <<"f", "3">>
      [] s = "f4" -> <<"f", "4">>
      [] s = "f5" -> <<"f", "5">>
      [] s = "f6" -> <<"f", "6">>

RECURSIVE map_accessors(_, _, _, _, _, _)

\* The accessors iterator: return type and borrow expression of every field.
map_accessors(m, this_type, fs, i, acc, stack) ==
    IF i > Len(fs) THEN MemoRet(acc, m)
    ELSE LET ret_type == borrowed_rust_type(m, this_type, type_(fs[i]), stack) IN
         IF ret_type.ovf THEN ret_type
         ELSE LET borrow == borrow_rust_type(ret_type.m, <<"self", field_name(fs[i])>>,
                                             type_(fs[i]), stack)
              IN  IF borrow.ovf THEN borrow
                  ELSE map_accessors(borrow.m, this_type, fs, i + 1,
                           Append(acc, [name |-> ToStr(field_ident(chars(field_name(fs[i])))),
                                        ret_type |-> ret_type.res,
                                        borrow |-> borrow.res]),
                           stack)

PlainDerives == <<"PartialEq", "Eq", "PartialOrd", "Ord", "Hash">>
EduceDerives == <<"conjure_object::private::Educe">>

\* What an emitter call leaves: the two memos, and the emitted item or the
\* way the call died.
Emitted(hd, ic, e) == [hd |-> hd, ic |-> ic, ovf |-> e.ovf, panic |-> e.panic, res |-> e.res]

object_generate(name, stack) ==
    LET def == types[name]
        fs == def[2]
        double == any_has_double(HasDoubleMemo, fs, 1, stack)
        copy == all_is_copy(IsCopyMemo, fs, 1, stack)
        derives == <<"Debug", "Clone">>
                   \o (IF double.res THEN EduceDerives ELSE PlainDerives)
                   \o (IF copy.res THEN <<"Copy">> ELSE <<>>)
        boxed_types == map_boxed_rust_type(name, fs, 1, <<>>, stack)
        constructor == IF Len(fields(def)) < ConstructorFieldLimit
                       THEN generate_constructor(name, stack)
                       ELSE EmitRet(None)
        builder_method == IF \E i \in 1..Len(fs) : fields(def)[i] = "builder"
                          THEN "builder_" ELSE "builder"
        field_attrs == map_is_double(double.m, fs, 1, <<>>, stack)
        accessors == map_accessors(copy.m, name, fs, 1, <<>>, stack)
    IN  IF double.ovf THEN Emitted(double.m, IsCopyMemo, EmitOverflow)
        ELSE IF copy.ovf THEN Emitted(double.m, copy.m, EmitOverflow)
        ELSE IF boxed_types.ovf THEN Emitted(double.m, copy.m, EmitOverflow)
        ELSE IF constructor.ovf \/ constructor.panic
             THEN Emitted(double.m, copy.m, constructor)
        ELSE IF field_attrs.ovf THEN Emitted(field_attrs.m, copy.m, EmitOverflow)
        ELSE IF accessors.ovf THEN Emitted(field_attrs.m, accessors.m, EmitOverflow)
        ELSE Emitted(field_attrs.m, accessors.m,
                 EmitRet([derives |-> derives,
                          field_attrs |-> field_attrs.res,
                          fields |-> fields(def),
                          boxed_types |-> boxed_types.res,
                          constructor |-> IF constructor.res = None THEN None
                                          ELSE Some(constructor.res),
                          builder_method |-> builder_method,
                          accessors |-> accessors.res]))

(***************************************************************************)
(* aliases: the alias emitter.                                             *)
(***************************************************************************)
alias_generate(name, stack) ==
    LET def == types[name]
        alias == rust_type(name, def[2])
        copy == is_copy(IsCopyMemo, def[2], stack)
        double == is_double(HasDoubleMemo, def[2], stack)
        default == is_default(def[2], stack)
        display == is_display(def[2], stack)
        plain == is_plain(def[2], stack)
        derives == <<"Debug", "Clone">>
                   \o (IF copy.res THEN <<"Copy">> ELSE <<>>)
                   \o (IF double.res THEN EduceDerives ELSE PlainDerives)
                   \o (IF default.res THEN <<"Default">> ELSE <<>>)
    IN  IF copy.ovf THEN Emitted(HasDoubleMemo, copy.m, EmitOverflow)
        ELSE IF double.ovf THEN Emitted(double.m, copy.m, EmitOverflow)
        ELSE IF default.ovf \/ display.ovf \/ plain.ovf
             THEN Emitted(double.m, copy.m, EmitOverflow)
        ELSE Emitted(double.m, copy.m,
                 EmitRet([derives |-> derives,
                          field_attrs |-> <<double.res>>,
                          alias |-> alias,
                          display |-> display.res,
                          plain |-> plain.res]))

(***************************************************************************)
(* Documents.  A document maps every declared TypeName to its definition.  *)
(***************************************************************************)
RECURSIVE SubTypes(_)

\* A type and every type nested in it.
SubTypes(t) ==
    {t} \cup (CASE t[1] \in {"Optional", "List", "Set", "External"} -> SubTypes(t[2])
                [] t[1] = "Map" -> SubTypes(t[2]) \cup SubTypes(t[3])
                [] OTHER -> {})

\* The types a definition names directly: an alias's inner type, the types
\* of an object's fields or of a union's variants.
DefTypes(def) ==
    CASE def[1] = "Alias" -> {def[2]}
      [] def[1] = "Enum" -> {}
      [] def[1] \in {"Object", "Union"} -> {type_(def[2][i]) : i \in 1..Len(def[2])}

\* Every type that occurs in a document.
TypesIn(doc) == UNION {SubTypes(t) : t \in UNION {DefTypes(doc[n]) : n \in DOMAIN doc}}

RECURSIVE BareRefs(_)

\* The names a type refers to without passing through a container.
BareRefs(t) ==
    CASE t[1] = "Reference" -> {t[2]}
      [] t[1] = "External" -> BareRefs(t[2])
      [] OTHER -> {}

\* The aliases an alias is, link by link, without passing through a
\* container, an object field or a union variant.
AliasLinks(doc, n) == IF doc[n][1] = "Alias" THEN BareRefs(doc[n][2]) ELSE {}

RECURSIVE AliasClosure(_, _, _)

AliasClosure(doc, S, k) ==
    IF k = 0 THEN S
    ELSE AliasClosure(doc, S \cup UNION {AliasLinks(doc, n) : n \in S}, k - 1)

\* The data model's invariants: every Reference resolves, and a cycle
\* between definitions passes through a container, an object field or a
\* union variant.
ValidDoc(doc) ==
    /\ \A t \in TypesIn(doc) : t[1] = "Reference" => t[2] \in DOMAIN doc
    /\ \A n \in DOMAIN doc :
          n \notin AliasClosure(doc, AliasLinks(doc, n), Cardinality(DOMAIN doc))

Doc(a, b, c) == [n \in Names |-> CASE n = "A" -> a [] n = "B" -> b [] n = "C" -> c]

Double == Primitive("Double")
Integer == Primitive("Integer")
String == Primitive("String")
Datetime == Primitive("Datetime")

\* Documents of definitions that refer to each other, with and without
\* cycles, and reach a double in some places.
GraphDefsA ==
    { Object(<<Field("b", Reference("B")), Field("d", Double)>>),
      Object(<<Field("d", Double), Field("b", Reference("B"))>>),
      Object(<<Field("next", Optional(Reference("A")))>>),
      Alias(Reference("B")),
      Alias(Optional(Reference("A"))),
      Alias(Datetime),
      Union(<<Field("lit", Integer), Field("pair", Reference("B"))>>) }

GraphDefsB ==
    { Object(<<Field("a", Reference("A"))>>),
      Object(<<Field("left", Reference("A")), Field("right", Reference("A"))>>),
      Alias(Reference("C")),
      Alias(List(Double)),
      Alias(External(Optional(Reference("C")))),
      Union(<<Field("a", Reference("A")), Field("c", Reference("C"))>>),
      Enum }

GraphDefsC ==
    { Object(<<Field("b", Reference("B"))>>),
      Object(<<Field("m", Map(String, Reference("B")))>>),
      Alias(Reference("B")),
      Alias(Double),
      Union(<<Field("b", Optional(Reference("B"))), Field("c", Reference("C"))>>),
      Object(<<>>),
      Enum }

GraphDocs ==
    {d \in {Doc(a, b, c) : a \in GraphDefsA, b \in GraphDefsB, c \in GraphDefsC} :
        ValidDoc(d)}

(***************************************************************************)
(* The state machine: a Context built from a document, then any sequence   *)
(* of queries and emitter calls on it.                                     *)
(***************************************************************************)
Out(op, this, arg, ovf, panic, res) ==
    [op |-> op, this |-> this, arg |-> arg, ovf |-> ovf, panic |-> panic, res |-> res]

\* The package of the documents that keep every type in one package.
DefaultPackage == <<"a", "p", "i">>

\* Context::new on the document doc whose types have the names type_names
\* and are in the packages packages, with the strip prefix prefix (None, or
\* Some of a dotted string).
NewNamed(doc, type_names, packages, prefix) ==
    /\ types = doc
    /\ names = type_names
    /\ package = packages
    /\ strip_prefix = IF prefix = None THEN <<>> ELSE raw_module_path(prefix[1])
    /\ has_double_cell = [n \in Names |-> None]
    /\ is_copy_cell = [n \in Names |-> None]
    /\ evals = [has_double |-> [n \in Names |-> 0], is_copy |-> [n \in Names |-> 0]]
    /\ writes = [has_double |-> [n \in Names |-> 0], is_copy |-> [n \in Names |-> 0]]
    /\ out = Out("new", "", <<>>, FALSE, FALSE, <<>>)
    /\ crashed = FALSE

\* Context::new on the document doc whose types are in the packages
\* packages and are named by their one-letter keys.
NewIn(doc, packages, prefix) == NewNamed(doc, [n \in Names |-> <<n>>], packages, prefix)

\* Context::new on the document doc, every type in the default package and
\* no strip prefix.
New(doc) == NewIn(doc, [n \in Names |-> DefaultPackage], None)

Init == \E doc \in GraphDocs : New(doc)

\* The types the emitters ask about: references to the declared types, and
\* the inner types, field types and variant types of the definitions.
QueryTypes ==
    {Reference(n) : n \in Names} \cup UNION {DefTypes(types[n]) : n \in Names}

SetHasDoubleMemo(m) ==
    /\ has_double_cell' = m.cell
    /\ evals' = [evals EXCEPT !.has_double = m.ev]
    /\ writes' = [writes EXCEPT !.has_double = m.wr]

SetIsCopyMemo(m) ==
    /\ is_copy_cell' = m.cell
    /\ evals' = [evals EXCEPT !.is_copy = m.ev]
    /\ writes' = [writes EXCEPT !.is_copy = m.wr]

HasDouble(def) ==
    /\ ~crashed
    /\ LET r == has_double(HasDoubleMemo, def, StackLimit) IN
       /\ SetHasDoubleMemo(r.m)
       /\ out' = Out("has_double", "", def, r.ovf, FALSE, r.res)
       /\ crashed' = r.ovf
    /\ UNCHANGED <<types, names, package, strip_prefix, is_copy_cell>>

IsCopy(def) ==
    /\ ~crashed
    /\ LET r == is_copy(IsCopyMemo, def, StackLimit) IN
       /\ SetIsCopyMemo(r.m)
       /\ out' = Out("is_copy", "", def, r.ovf, FALSE, r.res)
       /\ crashed' = r.ovf
    /\ UNCHANGED <<types, names, package, strip_prefix, has_double_cell>>

\* A call that leaves the memo alone.
Query(op, this, def, r) ==
    /\ ~crashed
    /\ out' = Out(op, this, def, r.ovf, FALSE, r.res)
    /\ crashed' = r.ovf
    /\ UNCHANGED <<types, names, package, strip_prefix, has_double_cell, is_copy_cell, evals, writes>>

NeedsBox(def) == Query("needs_box", "", def, needs_box(def, StackLimit))
IsRequired(def) == Query("is_required", "", def, is_required(def, StackLimit))
IsDefault(def) == Query("is_default", "", def, is_default(def, StackLimit))
IsDisplay(def) == Query("is_display", "", def, is_display(def, StackLimit))
IsPlain(def) == Query("is_plain", "", def, is_plain(def, StackLimit))
IsIterable(def) == Query("is_iterable", "", def, is_iterable(def, StackLimit))
IsList(def) == Query("is_list", "", def, is_list(def, StackLimit))
IsSet(def) == Query("is_set", "", def, is_set(def, StackLimit))
IsBinary(def) == Query("is_binary", "", def, is_binary(def, StackLimit))
IsOptional(def) == Query("is_optional", "", def, is_optional(def, StackLimit))
RustType(this_type, def) ==
    Query("rust_type", this_type, def, Ret(rust_type(this_type, def)))
BoxedRustType(this_type, def) ==
    Query("boxed_rust_type", this_type, def, boxed_rust_type(this_type, def, StackLimit))

\* One emitter call: the memos as it leaves them and what it emitted.
Generate(op, name, e) ==
    /\ ~crashed
    /\ has_double_cell' = e.hd.cell
    /\ is_copy_cell' = e.ic.cell
    /\ evals' = [has_double |-> e.hd.ev, is_copy |-> e.ic.ev]
    /\ writes' = [has_double |-> e.hd.wr, is_copy |-> e.ic.wr]
    /\ out' = Out(op, name, <<>>, e.ovf, e.panic, e.res)
    /\ crashed' = (e.ovf \/ e.panic)
    /\ UNCHANGED <<types, names, package, strip_prefix>>

GenerateAlias(name) ==
    /\ types[name][1] = "Alias"
    /\ Generate("aliases::generate", name, alias_generate(name, StackLimit))

GenerateObject(name) ==
    /\ types[name][1] = "Object"
    /\ Generate("object::generate", name, object_generate(name, StackLimit))

Next ==
    \/ \E def \in QueryTypes : HasDouble(def)
    \/ \E name \in Names : GenerateAlias(name)
    \/ \E name \in Names : GenerateObject(name)

Spec == Init /\ [][Next]_vars

(***************************************************************************)
(* The classifications on their own: a Context built from a document whose *)
(* definitions exercise every arm of the classifications, then any         *)
(* sequence of classification and storage-type queries.                    *)
(***************************************************************************)
Uuid == Primitive("Uuid")

ClassifyDefsA ==
    { Alias(Optional(Reference("A"))),
      Object(<<Field("next", Optional(Reference("A")))>>),
      Union(<<Field("obj", Reference("B")), Field("uni", Reference("C")),
              Field("opt", Optional(Reference("B"))),
              Field("ext", External(Reference("B")))>>) }

ClassifyDefsB ==
    { Object(<<Field("a", Reference("A")), Field("n", Integer)>>),
      Alias(External(Reference("C"))),
      Alias(Datetime) }

ClassifyDefsC ==
    { Union(<<Field("a", Reference("A")), Field("s", String)>>),
      Alias(List(Reference("B"))),
      Enum }

ClassifyDocs ==
    {d \in {Doc(a, b, c) : a \in ClassifyDefsA, b \in ClassifyDefsB, c \in ClassifyDefsC} :
        ValidDoc(d)}

InitClassify == \E doc \in ClassifyDocs : New(doc)

\* The types the classifications are asked about: the types the emitters
\* ask about, and every primitive.
ClassifyTypes == QueryTypes \cup {Primitive(p) : p \in PrimitiveType}

NextClassify ==
    \/ \E def \in ClassifyTypes : NeedsBox(def)
    \/ \E def \in ClassifyTypes : IsRequired(def)
    \/ \E def \in ClassifyTypes : IsDefault(def)
    \/ \E def \in ClassifyTypes : IsDisplay(def)
    \/ \E def \in ClassifyTypes : IsPlain(def)
    \/ \E def \in ClassifyTypes : IsIterable(def)
    \/ \E def \in ClassifyTypes : IsList(def)
    \/ \E def \in ClassifyTypes : IsSet(def)
    \/ \E def \in ClassifyTypes : IsBinary(def)
    \/ \E def \in ClassifyTypes : IsOptional(def)
    \/ \E this_type \in Names : \E def \in DefTypes(types[this_type]) :
          RustType(this_type, def)
    \/ \E this_type \in Names : \E def \in DefTypes(types[this_type]) :
          BoxedRustType(this_type, def)

SpecClassify == InitClassify /\ [][NextClassify]_vars

\* The types is_copy is asked about: those, and optionals and externals of
\* the declared types and of a scalar and a heap primitive.
CopyTypes ==
    ClassifyTypes
        \cup {Optional(t) : t \in {Reference(n) : n \in Names} \cup {Datetime, String}}
        \cup {External(t) : t \in {Reference(n) : n \in Names} \cup {Datetime, String}}

\* is_copy, which keeps a memo, next to the classifications it is compared
\* with.
NextCopy ==
    \/ \E def \in CopyTypes : IsCopy(def)
    \/ \E def \in CopyTypes : IsDefault(def)
    \/ \E def \in CopyTypes : IsRequired(def)
    \/ \E def \in CopyTypes : IsIterable(def)

SpecCopy == InitClassify /\ [][NextCopy]_vars

(***************************************************************************)
(* The object emitter on its own: a Context built from a document whose    *)
(* type A is an object, then emission of the objects of the document.      *)
(***************************************************************************)
\* The object whose i-th field has the i-th type of ts.
ObjectOf(ts) == Object([i \in 1..Len(ts) |-> Field("f" \o ToString(i), ts[i])])

\* The objects of at most k fields with types in T.
ObjectsOver(T, k) == {ObjectOf(ts) : ts \in UNION {[1..n -> T] : n \in 0..k}}

\* Field types of every kind is_copy tells apart.
CopyFieldTypes ==
    {Primitive(p) : p \in {"Integer", "Datetime", "String", "Binary", "Any", "Rid",
                           "Bearertoken"}}
        \cup {Optional(Integer), Optional(String), External(Uuid),
              List(Integer), Set(Integer), Map(String, Integer),
              Reference("A"), Reference("B"), Reference("C")}

\* Field types of every shape of setter bound, plain and optional.
ConstructorFieldTypes == {Integer, String, List(Integer), Optional(String)}

\* Field names next to the names the emitted methods take.
FieldNameChoices == {"new", "New", "new_", "renew", "builder", "value"}

\* The objects of at most k integer fields with distinct names in N.
ObjectsNamed(N, k) ==
    {Object([i \in 1..Len(ns) |-> Field(ns[i], Integer)]) :
        ns \in {x \in UNION {[1..n -> N] : n \in 0..k} :
                   \A i, j \in 1..Len(x) : i # j => x[i] # x[j]}}

ObjectDocs ==
    {Doc(a, b, c) : a \in ObjectsOver(CopyFieldTypes, 2),
                    b \in {Enum, Union(<<Field("a", Reference("A"))>>)},
                    c \in {Alias(Datetime), Alias(String)}}
        \cup {Doc(a, Enum, Alias(Datetime)) : a \in ObjectsOver(ConstructorFieldTypes, MaxFields)}
        \cup {Doc(a, Enum, Alias(Datetime)) : a \in ObjectsNamed(FieldNameChoices, 2)}

InitObject == \E doc \in ObjectDocs : New(doc)

NextObject == \E name \in Names : GenerateObject(name)

SpecObject == InitObject /\ [][NextObject]_vars

(***************************************************************************)
(* Identifiers and paths on their own: a Context built with types in       *)
(* several packages and a strip prefix, then any sequence of identifier    *)
(* and path queries.                                                       *)
(***************************************************************************)
\* Raw field and type names: keywords of every kind, in several cases, and
\* names of several words.
RawNames ==
    {<<"t", "y", "p", "e">>, <<"T", "y", "p", "e">>,
     <<"t", "y", "p", "e", "O", "f">>, <<"t", "y", "p", "e", "o", "f">>,
     <<"a", "s", "y", "n", "c">>, <<"a", "w", "a", "i", "t">>,
     <<"t", "r", "y">>, <<"f", "o", "o", "B", "a", "r">>,
     <<"s", "e", "l", "f">>, <<"d", "y", "n">>, <<"u", "n", "i", "o", "n">>,
     <<"n", "e", "w", "_">>, <<"X", "M", "L", "H", "t", "t", "p">>,
     <<"m", "a", "c", "r", "o", "R", "u", "l", "e", "s">>, <<"b", "o", "x">>,
     <<"v", "a", "l", "u", "e">>, <<"m", "a", "t", "c", "h">>, <<"i", "n">>,
     <<"w", "h", "e", "r", "e">>, <<"a", "-", "b">>}

PathPackagesA ==
    {<<"c", "o", "m", ".", "a", "c", "m", "e", ".", "a", "p", "i">>,
     <<"c", "o", "m", ".", "a", "c", "m", "e", ".", "t", "y", "p", "e">>,
     <<"c", "o", "m", ".", "a", "c", "m", "e">>,
     <<"c", "o", "m", ".", "a", "c">>, <<"o", "r", "g", ".", "a", "p", "i">>}
PathPackagesB == {<<"c", "o", "m", ".", "a", "c", "m", "e", ".", "a", "p", "i">>, <<"c", "o", "m", ".", "a", "c", "m", "e", ".", "a", "p", "i", ".", "v", "2">>, <<"o", "r", "g", ".", "a", "p", "i">>}
PathPackageC == <<"c", "o", "m", ".", "a", "c", "m", "e", ".", "a", "p", "i">>

\* The strip prefix: none, a proper component prefix of some packages, a
\* whole package, a string prefix that is no component prefix, and a
\* prefix in another case.
StripPrefixes ==
    {None, Some(<<"c", "o", "m", ".", "a", "c", "m", "e">>), Some(<<"c", "o", "m", ".", "a", "c", "m", "e", ".", "a", "p", "i">>), Some(<<"c", "o", "m", ".", "a", "c">>), Some(<<"C", "o", "m", ".", "A", "c", "m", "e">>)}

InitPaths ==
    \E a \in PathPackagesA, b \in PathPackagesB, prefix \in StripPrefixes :
        NewIn(Doc(Enum, Enum, Enum),
              [n \in Names |-> CASE n = "A" -> a [] n = "B" -> b [] n = "C" -> PathPackageC],
              prefix)

FieldName(s) == Query("field_name", "", s, Ret(field_ident(s)))
ModuleName(name) == Query("module_name", "", name, Ret(module_name(name)))
TypeName(name) == Query("type_name", "", name, Ret(type_name(name)))
ModulePath(name) == Query("module_path", "", name, Ret(module_path(name)))
TypePath(this_type, other_type) ==
    Query("type_path", this_type, other_type, Ret(type_path(this_type, other_type)))

NextPaths ==
    \/ \E s \in RawNames : FieldName(s)
    \/ \E s \in RawNames : ModuleName(s)
    \/ \E s \in RawNames : TypeName(s)
    \/ \E name \in Names : ModulePath(name)
    \/ \E this_type, other_type \in Names : TypePath(this_type, other_type)

SpecPaths == InitPaths /\ [][NextPaths]_vars

(***************************************************************************)
(* conjure_object::DoubleKey: an f64 usable as a collection key.  An f64   *)
(* is its bit pattern, whether it is a NaN, and, when it is not, its place *)
(* among the numbers (the two zeros share one place).                      *)
(***************************************************************************)
F64(bits, nan, place) == [bits |-> bits, nan |-> nan, place |-> place]

Doubles ==
    { F64("fff0000000000000", FALSE, -2),      \* -inf
      F64("bff0000000000000", FALSE, -1),      \* -1.0
      F64("8000000000000000", FALSE, 0),       \* -0.0
      F64("0000000000000000", FALSE, 0),       \* 0.0
      F64("3ff0000000000000", FALSE, 1),       \* 1.0
      F64("7ff0000000000000", FALSE, 2),       \* inf
      F64("7ff8000000000000", TRUE, 0),        \* NaN
      F64("fff8000000000000", TRUE, 0),        \* NaN with the sign bit set
      F64("7ff8000000000001", TRUE, 0) }       \* NaN with a payload

\* f64's own comparisons: a NaN equals nothing and has no order.
f64_eq(a, b) == ~a.nan /\ ~b.nan /\ a.place = b.place
f64_partial_cmp(a, b) ==
    IF a.nan \/ b.nan THEN None
    ELSE Some(IF a.place < b.place THEN "Less"
              ELSE IF a.place = b.place THEN "Equal" ELSE "Greater")

\* ordered_float::OrderedFloat, which DoubleKey delegates to.
OrderedFloat_eq(a, b) == IF a.nan THEN b.nan ELSE f64_eq(a, b)
OrderedFloat_cmp(a, b) ==
    LET ordering == f64_partial_cmp(a, b) IN
    IF ordering # None THEN ordering[1]
    ELSE IF a.nan THEN (IF b.nan THEN "Equal" ELSE "Greater")
    ELSE "Less"
OrderedFloat_partial_cmp(a, b) == Some(OrderedFloat_cmp(a, b))
\* What the hasher is fed: one bit pattern for every NaN, one for both
\* zeros, the value's own otherwise.
OrderedFloat_hash(a) ==
    IF a.nan THEN "7ff8000000000000"
    ELSE IF a.place = 0 THEN "0000000000000000"
    ELSE a.bits

partial_cmp(self, other) == OrderedFloat_partial_cmp(self, other)
\* f64's own equality in place of OrderedFloat's.
eq_ieee(self, other) == f64_eq(self, other)
eq(self, other) == OrderedFloat_eq(self, other)
cmp(self, other) == OrderedFloat_cmp(self, other)
hash(self) == OrderedFloat_hash(self)

\* No Context takes part: the variables stay as Context::new leaves them
\* and out holds the last DoubleKey call.
InitDoubleKey == New(Doc(Enum, Enum, Enum))

PartialCmp(a, b) == Query("DoubleKey::partial_cmp", "", <<a, b>>, Ret(partial_cmp(a, b)))
Eq(a, b) == Query("DoubleKey::eq", "", <<a, b>>, Ret(eq(a, b)))
Cmp(a, b) == Query("DoubleKey::cmp", "", <<a, b>>, Ret(cmp(a, b)))
Hash(a) == Query("DoubleKey::hash", "", <<a>>, Ret(hash(a)))

NextDoubleKey ==
    \/ \E a, b \in Doubles : PartialCmp(a, b)
    \/ \E a, b \in Doubles : Eq(a, b)
    \/ \E a, b \in Doubles : Cmp(a, b)
    \/ \E a \in Doubles : Hash(a)

SpecDoubleKey == InitDoubleKey /\ [][NextDoubleKey]_vars

(***************************************************************************)
(* Clients: the requests the generated and the macro-declared clients hand *)
(* their transport, and the test transport they are checked against.       *)
(* Strings are sequences of characters; "U+E9" is a character of two UTF-8 *)
(* bytes, and a byte is written as its ASCII character or as "xC3", "xA9". *)
(***************************************************************************)
RECURSIVE concat(_, _, _)
\* The concatenation of the sequences seqs[lo], ..., seqs[hi].
concat(seqs, lo, hi) ==
    IF lo > hi THEN <<>>
    ELSE IF lo = hi THEN seqs[lo]
    ELSE concat(seqs, lo, (lo + hi) \div 2) \o concat(seqs, ((lo + hi) \div 2) + 1, hi)

utf8(s) ==
    concat([i \in DOMAIN s |-> IF s[i] = "U+E9" THEN <<"xC3", "xA9">> ELSE <<s[i]>>],
           1, Len(s))

\* The text of well-formed UTF-8 bytes.
from_utf8(bytes) ==
    concat([i \in DOMAIN bytes |->
               IF bytes[i] = "xC3" THEN <<"U+E9">>
               ELSE IF bytes[i] = "xA9" THEN <<>>
               ELSE <<bytes[i]>>],
           1, Len(bytes))

\* The two hexadecimal digits of the bytes outside the unreserved set.
Hex ==
    [b \in {" ", "\"", "%", "&", "+", "/", "=", "?", "{", "}", "xC3", "xA9"} |->
        CASE b = " " -> <<"2", "0">>
          [] b = "\"" -> <<"2", "2">>
          [] b = "%" -> <<"2", "5">>
          [] b = "&" -> <<"2", "6">>
          [] b = "+" -> <<"2", "B">>
          [] b = "/" -> <<"2", "F">>
          [] b = "=" -> <<"3", "D">>
          [] b = "?" -> <<"3", "F">>
          [] b = "{" -> <<"7", "B">>
          [] b = "}" -> <<"7", "D">>
          [] b = "xC3" -> <<"C", "3">>
          [] b = "xA9" -> <<"A", "9">>]

unreserved(b) == is_alphanumeric(b) \/ b \in {"-", ".", "_", "~"}

percent_encode_bytes(bytes) ==
    concat([i \in DOMAIN bytes |->
               IF unreserved(bytes[i]) THEN <<bytes[i]>> ELSE <<"%">> \o Hex[bytes[i]]],
           1, Len(bytes))

\* Each byte outside the unreserved set becomes % and its two digits.
percent_encode(s) == percent_encode_bytes(utf8(s))

RECURSIVE decimal(_)
decimal(n) ==
    IF n < 10 THEN <<Digits[n + 1]>> ELSE decimal(n \div 10) \o <<Digits[(n % 10) + 1]>>

\* The plain form of a value of the type type.
display(type, v) ==
    CASE type = "str" -> v
      [] type = "rid" -> v
      [] type = "i32" -> decimal(v)
      [] type = "bool" -> IF v THEN <<"t", "r", "u", "e">> ELSE <<"f", "a", "l", "s", "e">>

\* A BTreeSet<bool> in iteration order.
iter(set) == (IF FALSE \in set THEN <<FALSE>> ELSE <<>>) \o (IF TRUE \in set THEN <<TRUE>> ELSE <<>>)

\* The plain forms a parameter's encoder yields for the argument v: one for
\* a required value, none for an absent optional, one per element of a
\* sequence.
encode(param, v) ==
    CASE param.kind = "required" -> <<display(param.type, v)>>
      [] param.kind = "optional" ->
            IF v = None THEN <<>> ELSE <<display(param.type, v[1])>>
      [] param.kind = "list" -> [i \in DOMAIN v |-> display(param.type, v[i])]
      [] param.kind = "set" -> [i \in DOMAIN iter(v) |-> display(param.type, iter(v)[i])]

escape(s) ==
    concat([i \in DOMAIN s |-> IF s[i] = "\"" THEN <<"\\", "\"">> ELSE <<s[i]>>], 1, Len(s))

\* serde_json of a string, and of an optional string.
to_json(s) == utf8(<<"\"">> \o escape(s) \o <<"\"">>)
to_json_optional(v) == IF v = None THEN <<"n", "u", "l", "l">> ELSE to_json(v[1])

\* The text of a JSON string whose escapes are those of escape.
unescape(s) ==
    concat([i \in DOMAIN s |->
               IF s[i] = "\\" /\ (i = 1 \/ s[i - 1] # "\\") THEN <<>> ELSE <<s[i]>>],
           1, Len(s))

\* serde_json's reading of a JSON string: Some of its text, or None when
\* the text is no JSON string.
from_json(s) ==
    IF Len(s) >= 2 /\ s[1] = "\"" /\ s[Len(s)] = "\""
    THEN Some(unescape(SubSeq(s, 2, Len(s) - 1)))
    ELSE None

\* A declared parameter and a declared endpoint.
Param(name, location, type, kind) ==
    [name |-> name, location |-> location, type |-> type, kind |-> kind]
Endpoint(service, name, method, path, params, accept, returns) ==
    [service |-> service, name |-> name, method |-> method, path |-> path,
     params |-> params, accept |-> accept, returns |-> returns]

\* The components of a path template: its literals and its {parameters},
\* each after a '/'.
path_components(path) ==
    LET slashes == {i \in DOMAIN path : path[i] = "/"}
        starts == [k \in 1..Cardinality(slashes) |->
                      CHOOSE i \in slashes : Cardinality({j \in slashes : j < i}) = k - 1]
    IN  [k \in DOMAIN starts |->
            SubSeq(path, starts[k] + 1,
                   IF k = Len(starts) THEN Len(path) ELSE starts[k + 1] - 1)]
is_parameter(component) ==
    Len(component) >= 2 /\ component[1] = "{" /\ component[Len(component)] = "}"
parameter_name(component) == SubSeq(component, 2, Len(component) - 1)

RECURSIVE push_path_parameter(_, _)
\* One segment per plain form: a '/' and the percent-encoded form.
push_path_parameter(values, i) ==
    IF i > Len(values) THEN <<>>
    ELSE <<"/">> \o percent_encode(values[i]) \o push_path_parameter(values, i + 1)

RECURSIVE build_path(_, _, _)
build_path(endpoint, args, i) ==
    LET components == path_components(endpoint.path) IN
    IF i > Len(components) THEN <<>>
    ELSE (IF is_parameter(components[i])
          THEN LET p == CHOOSE k \in DOMAIN endpoint.params :
                            /\ endpoint.params[k].location = "path"
                            /\ endpoint.params[k].name = parameter_name(components[i])
               IN  push_path_parameter(encode(endpoint.params[p], args[p]), 1)
          ELSE <<"/">> \o components[i])
         \o build_path(endpoint, args, i + 1)

RECURSIVE push_query_parameter(_, _, _, _)
\* One name=value pair per plain form; the first pair of the URI follows a
\* '?', every later one a '&'.
push_query_parameter(name, values, i, first) ==
    IF i > Len(values) THEN <<>>
    ELSE <<IF first THEN "?" ELSE "&">> \o percent_encode(name) \o <<"=">>
         \o percent_encode(values[i]) \o push_query_parameter(name, values, i + 1, FALSE)

RECURSIVE build_query(_, _, _, _)
build_query(endpoint, args, i, first) ==
    IF i > Len(endpoint.params) THEN <<>>
    ELSE IF endpoint.params[i].location = "query"
    THEN LET values == encode(endpoint.params[i], args[i]) IN
         push_query_parameter(endpoint.params[i].name, values, 1, first)
         \o build_query(endpoint, args, i + 1, first /\ values = <<>>)
    ELSE build_query(endpoint, args, i + 1, first)

build_uri(endpoint, args) == build_path(endpoint, args, 1) \o build_query(endpoint, args, 1, TRUE)

\* The body of a request before the client wraps it: Empty, Fixed bytes or
\* a Streaming writer (the bytes it will write).
build_body(endpoint, args) ==
    IF \E k \in DOMAIN endpoint.params : endpoint.params[k].location = "body"
    THEN LET p == CHOOSE k \in DOMAIN endpoint.params : endpoint.params[k].location = "body" IN
         CASE endpoint.params[p].type = "binary" -> <<"Streaming", args[p]>>
           [] endpoint.params[p].kind = "optional" -> <<"Fixed", to_json_optional(args[p])>>
           [] OTHER -> <<"Fixed", to_json(args[p])>>
    ELSE <<"Empty">>

\* The header map: the body's Content-Type, the Content-Length of a JSON
\* body (the clients generated from the IR set it, the macro-declared ones
\* leave it to the transport) and the declared Accept.
build_headers(endpoint, args) ==
    LET body == build_body(endpoint, args) IN
    (CASE body[1] = "Fixed" ->
            {<<"Content-Type", <<"a", "p", "p", "l", "i", "c", "a", "t", "i", "o", "n", "/", "j", "s", "o", "n">>>>}
            \cup (IF endpoint.service = "TestService"
                  THEN {<<"Content-Length", decimal(Len(body[2]))>>} ELSE {})
       [] body[1] = "Streaming" -> {<<"Content-Type", <<"a", "p", "p", "l", "i", "c", "a", "t", "i", "o", "n", "/", "o", "c", "t", "e", "t", "-", "s", "t", "r", "e", "a", "m">>>>}
       [] OTHER -> {})
    \cup (IF endpoint.accept = None THEN {} ELSE {<<"Accept", endpoint.accept[1]>>})

\* The request of a call of the endpoint with the arguments args.
build_request(endpoint, args) ==
    [method |-> endpoint.method, uri |-> build_uri(endpoint, args),
     headers |-> build_headers(endpoint, args), body |-> build_body(endpoint, args)]

\* What a client method makes of the transport's response: Some of the
\* value, or None for an error.
decode_response(endpoint, response) ==
    CASE endpoint.returns = "unit" -> Some(<<"()">>)
      [] endpoint.returns = "string" ->
            IF response.body[1] = "Json" /\ from_json(response.body[2]) # None
            THEN Some(<<"String", from_json(response.body[2])[1]>>) ELSE None
      [] endpoint.returns = "optional_string" ->
            IF response.status = 204 THEN Some(<<"None">>)
            ELSE IF response.body[1] = "Json" /\ from_json(response.body[2]) # None
            THEN Some(<<"Some", from_json(response.body[2])[1]>>) ELSE None

\* The test transport: the request it expects and the response it gives.
TestBody_Empty == <<"Empty">>
TestBody_Json(s) == <<"Json", s>>
TestBody_Streaming(bytes) == <<"Streaming", bytes>>
TestClient(method, path, headers, body, response) ==
    [method |-> method, path |-> path, headers |-> headers, body |-> body,
     response |-> response]

\* The response a TestClient gives once a request passed its assertions.
respond(self) ==
    CASE self.response[1] = "Empty" ->
            [status |-> 204, headers |-> {}, body |-> <<"Empty">>]
      [] self.response[1] = "Json" ->
            [status |-> 200, headers |-> {<<"Content-Type", <<"a", "p", "p", "l", "i", "c", "a", "t", "i", "o", "n", "/", "j", "s", "o", "n">>>>},
             body |-> self.response]
      [] self.response[1] = "Streaming" ->
            [status |-> 200, headers |-> {<<"Content-Type", <<"a", "p", "p", "l", "i", "c", "a", "t", "i", "o", "n", "/", "o", "c", "t", "e", "t", "-", "s", "t", "r", "e", "a", "m">>>>},
             body |-> self.response]

\* What a send comes to: it panicked on an assertion, or it read the body
\* as body and gave the response.
Sent(panic, body, response) == [panic |-> panic, body |-> body, response |-> response]

\* <&TestClient as Client>::send.
Client_send(self, req) ==
    IF req.method # self.method \/ req.uri # self.path \/ req.headers # self.headers
    THEN Sent(TRUE, None, None)
    ELSE LET body == CASE req.body[1] = "Empty" -> TestBody_Empty
                       [] req.body[1] = "Fixed" -> TestBody_Json(from_utf8(req.body[2]))
                       [] req.body[1] = "Streaming" -> TestBody_Streaming(req.body[2])
         IN  IF body # self.body THEN Sent(TRUE, Some(body), None)
             ELSE Sent(FALSE, Some(body), Some(respond(self)))

\* AsyncClient::send whose fixed bodies are taken for streamed ones.
AsyncClient_send_fixed_as_streaming(self, req) ==
    IF req.method # self.method \/ req.uri # self.path \/ req.headers # self.headers
    THEN Sent(TRUE, None, None)
    ELSE LET body == CASE req.body[1] = "Empty" -> TestBody_Empty
                       [] req.body[1] = "Fixed" -> TestBody_Streaming(req.body[2])
                       [] req.body[1] = "Streaming" -> TestBody_Streaming(req.body[2])
         IN  IF body # self.body THEN Sent(TRUE, Some(body), None)
             ELSE Sent(FALSE, Some(body), Some(respond(self)))
\* <&TestClient as AsyncClient>::send.
AsyncClient_send(self, req) ==
    IF req.method # self.method \/ req.uri # self.path \/ req.headers # self.headers
    THEN Sent(TRUE, None, None)
    ELSE LET body == CASE req.body[1] = "Empty" -> TestBody_Empty
                       [] req.body[1] = "Fixed" -> TestBody_Json(from_utf8(req.body[2]))
                       [] req.body[1] = "Streaming" -> TestBody_Streaming(req.body[2])
         IN  IF body # self.body THEN Sent(TRUE, Some(body), None)
             ELSE Sent(FALSE, Some(body), Some(respond(self)))

\* One call through a client: the request handed to the transport, what the
\* transport read as its body, whether the call or its unwrap panicked, and
\* the value returned.
Exchange(endpoint, req, sent) ==
    LET result == IF sent.panic THEN None ELSE decode_response(endpoint, sent.response[1]) IN
    [request |-> req, body |-> sent.body, panic |-> sent.panic \/ result = None,
     result |-> result]

\* A method of a blocking client and of an asynchronous client.
blocking_call(raw_client, endpoint, args) ==
    LET req == build_request(endpoint, args) IN
    Exchange(endpoint, req, Client_send(raw_client, req))
async_call(raw_client, endpoint, args) ==
    LET req == build_request(endpoint, args) IN
    Exchange(endpoint, req, AsyncClient_send(raw_client, req))

\* query_param whose list is sent under another name.
CustomService_query_param_list_renamed ==
    Endpoint("CustomService", "query_param", "GET",
             <<"/", "t", "e", "s", "t", "/", "q", "u", "e", "r", "y", "P", "a", "r", "a", "m", "s">>,
             <<Param(<<"n", "o", "r", "m", "a", "l">>, "query", "str", "required"),
               Param(<<"l", "i", "s", "t", "s">>, "query", "i32", "list")>>,
             None, "unit")

\* trait CustomService.
CustomService_query_param ==
    Endpoint("CustomService", "query_param", "GET",
             <<"/", "t", "e", "s", "t", "/", "q", "u", "e", "r", "y", "P", "a", "r", "a", "m", "s">>,
             <<Param(<<"n", "o", "r", "m", "a", "l">>, "query", "str", "required"),
               Param(<<"l", "i", "s", "t">>, "query", "i32", "list")>>,
             None, "unit")

\* path_param without the literal before its last parameter.
CustomService_path_param_no_raw ==
    Endpoint("CustomService", "path_param", "GET",
             <<"/", "t", "e", "s", "t", "/", "p", "a", "t", "h", "P", "a", "r", "a", "m", "s", "/", "{", "f", "o", "o", "}", "/", "{", "m", "u", "l", "t", "i", "}">>,
             <<Param(<<"f", "o", "o">>, "path", "str", "required"),
               Param(<<"m", "u", "l", "t", "i">>, "path", "str", "list")>>,
             None, "unit")

CustomService_path_param ==
    Endpoint("CustomService", "path_param", "GET",
             <<"/", "t", "e", "s", "t", "/", "p", "a", "t", "h", "P", "a", "r", "a", "m", "s", "/", "{", "f", "o", "o", "}", "/", "r", "a", "w", "/", "{", "m", "u", "l", "t", "i", "}">>,
             <<Param(<<"f", "o", "o">>, "path", "str", "required"),
               Param(<<"m", "u", "l", "t", "i">>, "path", "str", "list")>>,
             None, "unit")

\* json_request whose argument is a query parameter.
CustomService_json_request_as_query ==
    Endpoint("CustomService", "json_request", "POST",
             <<"/", "t", "e", "s", "t", "/", "j", "s", "o", "n", "R", "e", "q", "u", "e", "s", "t">>,
             <<Param(<<"b", "o", "d", "y">>, "query", "str", "required")>>,
             None, "unit")

CustomService_json_request ==
    Endpoint("CustomService", "json_request", "POST",
             <<"/", "t", "e", "s", "t", "/", "j", "s", "o", "n", "R", "e", "q", "u", "e", "s", "t">>,
             <<Param(<<"b", "o", "d", "y">>, "body", "str", "required")>>,
             None, "unit")

CustomService_json_response ==
    Endpoint("CustomService", "json_response", "GET",
             <<"/", "t", "e", "s", "t", "/", "j", "s", "o", "n", "R", "e", "s", "p", "o", "n", "s", "e">>,
             <<>>,
             Some(<<"a", "p", "p", "l", "i", "c", "a", "t", "i", "o", "n", "/", "j", "s", "o", "n">>), "string")

\* trait CustomServiceAsync.
CustomServiceAsync_query_param ==
    Endpoint("CustomService", "query_param", "GET",
             <<"/", "t", "e", "s", "t", "/", "q", "u", "e", "r", "y", "P", "a", "r", "a", "m", "s">>,
             <<Param(<<"n", "o", "r", "m", "a", "l">>, "query", "str", "required"),
               Param(<<"l", "i", "s", "t">>, "query", "i32", "list")>>,
             None, "unit")

CustomServiceAsync_path_param ==
    Endpoint("CustomService", "path_param", "GET",
             <<"/", "t", "e", "s", "t", "/", "p", "a", "t", "h", "P", "a", "r", "a", "m", "s", "/", "{", "f", "o", "o", "}", "/", "r", "a", "w", "/", "{", "m", "u", "l", "t", "i", "}">>,
             <<Param(<<"f", "o", "o">>, "path", "str", "required"),
               Param(<<"m", "u", "l", "t", "i">>, "path", "str", "list")>>,
             None, "unit")

CustomServiceAsync_json_request ==
    Endpoint("CustomService", "json_request", "POST",
             <<"/", "t", "e", "s", "t", "/", "j", "s", "o", "n", "R", "e", "q", "u", "e", "s", "t">>,
             <<Param(<<"b", "o", "d", "y">>, "body", "str", "required")>>,
             None, "unit")

CustomServiceAsync_json_response ==
    Endpoint("CustomService", "json_response", "GET",
             <<"/", "t", "e", "s", "t", "/", "j", "s", "o", "n", "R", "e", "s", "p", "o", "n", "s", "e">>,
             <<>>,
             Some(<<"a", "p", "p", "l", "i", "c", "a", "t", "i", "o", "n", "/", "j", "s", "o", "n">>), "string")

\* The endpoints of the generated TestService that the tests call.
TestService_query_params ==
    Endpoint("TestService", "query_params", "GET",
             <<"/", "t", "e", "s", "t", "/", "q", "u", "e", "r", "y", "P", "a", "r", "a", "m", "s">>,
             <<Param(<<"n", "o", "r", "m", "a", "l">>, "query", "str", "required"),
               Param(<<"c", "u", "s", "t", "o", "m">>, "query", "i32", "optional"),
               Param(<<"l", "i", "s", "t">>, "query", "i32", "list"),
               Param(<<"s", "e", "t">>, "query", "bool", "set")>>,
             Some(<<"a", "p", "p", "l", "i", "c", "a", "t", "i", "o", "n", "/", "j", "s", "o", "n">>), "unit")

TestService_path_params ==
    Endpoint("TestService", "path_params", "GET",
             <<"/", "t", "e", "s", "t", "/", "p", "a", "t", "h", "P", "a", "r", "a", "m", "s", "/", "{", "f", "o", "o", "}", "/", "{", "b", "a", "r", "}", "/", "r", "a", "w", "/", "{", "b", "a", "z", "}">>,
             <<Param(<<"f", "o", "o">>, "path", "str", "required"),
               Param(<<"b", "a", "r">>, "path", "bool", "required"),
               Param(<<"b", "a", "z">>, "path", "rid", "required")>>,
             Some(<<"a", "p", "p", "l", "i", "c", "a", "t", "i", "o", "n", "/", "j", "s", "o", "n">>), "unit")

TestService_empty_request ==
    Endpoint("TestService", "empty_request", "POST",
             <<"/", "t", "e", "s", "t", "/", "e", "m", "p", "t", "y", "R", "e", "q", "u", "e", "s", "t">>,
             <<>>,
             Some(<<"a", "p", "p", "l", "i", "c", "a", "t", "i", "o", "n", "/", "j", "s", "o", "n">>), "unit")

TestService_json_request ==
    Endpoint("TestService", "json_request", "POST",
             <<"/", "t", "e", "s", "t", "/", "j", "s", "o", "n", "R", "e", "q", "u", "e", "s", "t">>,
             <<Param(<<"b", "o", "d", "y">>, "body", "str", "required")>>,
             Some(<<"a", "p", "p", "l", "i", "c", "a", "t", "i", "o", "n", "/", "j", "s", "o", "n">>), "unit")

TestService_optional_json_request ==
    Endpoint("TestService", "optional_json_request", "POST",
             <<"/", "t", "e", "s", "t", "/", "o", "p", "t", "i", "o", "n", "a", "l", "J", "s", "o", "n", "R", "e", "q", "u", "e", "s", "t">>,
             <<Param(<<"b", "o", "d", "y">>, "body", "str", "optional")>>,
             Some(<<"a", "p", "p", "l", "i", "c", "a", "t", "i", "o", "n", "/", "j", "s", "o", "n">>), "unit")

TestService_streaming_request ==
    Endpoint("TestService", "streaming_request", "POST",
             <<"/", "t", "e", "s", "t", "/", "s", "t", "r", "e", "a", "m", "i", "n", "g", "R", "e", "q", "u", "e", "s", "t">>,
             <<Param(<<"b", "o", "d", "y">>, "body", "binary", "required")>>,
             Some(<<"a", "p", "p", "l", "i", "c", "a", "t", "i", "o", "n", "/", "j", "s", "o", "n">>), "unit")

TestService_json_response ==
    Endpoint("TestService", "json_response", "GET",
             <<"/", "t", "e", "s", "t", "/", "j", "s", "o", "n", "R", "e", "s", "p", "o", "n", "s", "e">>,
             <<>>,
             Some(<<"a", "p", "p", "l", "i", "c", "a", "t", "i", "o", "n", "/", "j", "s", "o", "n">>), "string")

TestService_optional_json_response ==
    Endpoint("TestService", "optional_json_response", "GET",
             <<"/", "t", "e", "s", "t", "/", "o", "p", "t", "i", "o", "n", "a", "l", "J", "s", "o", "n", "R", "e", "s", "p", "o", "n", "s", "e">>,
             <<>>,
             Some(<<"a", "p", "p", "l", "i", "c", "a", "t", "i", "o", "n", "/", "j", "s", "o", "n">>), "optional_string")

\* The TestClients the tests construct, by test.
custom_query_params ==
    {TestClient("GET", <<"/", "t", "e", "s", "t", "/", "q", "u", "e", "r", "y", "P", "a", "r", "a", "m", "s", "?", "n", "o", "r", "m", "a", "l", "=", "h", "e", "l", "l", "o", "%", "2", "0", "w", "o", "r", "l", "d", "&", "l", "i", "s", "t", "=", "1", "&", "l", "i", "s", "t", "=", "2">>,
               {},
               TestBody_Empty, TestBody_Empty),
     TestClient("GET", <<"/", "t", "e", "s", "t", "/", "q", "u", "e", "r", "y", "P", "a", "r", "a", "m", "s", "?", "n", "o", "r", "m", "a", "l", "=", "f", "o", "o">>,
               {},
               TestBody_Empty, TestBody_Empty)}

custom_path_params ==
    {TestClient("GET", <<"/", "t", "e", "s", "t", "/", "p", "a", "t", "h", "P", "a", "r", "a", "m", "s", "/", "h", "e", "l", "l", "o", "%", "2", "0", "w", "o", "r", "l", "d", "/", "r", "a", "w", "/", "f", "o", "o", "/", "b", "a", "r", "%", "2", "F", "b", "a", "z">>,
               {},
               TestBody_Empty, TestBody_Empty)}

custom_json_request ==
    {TestClient("POST", <<"/", "t", "e", "s", "t", "/", "j", "s", "o", "n", "R", "e", "q", "u", "e", "s", "t">>,
               {<<"Content-Type", <<"a", "p", "p", "l", "i", "c", "a", "t", "i", "o", "n", "/", "j", "s", "o", "n">>>>},
               TestBody_Json(<<"\"", "h", "e", "l", "l", "o", " ", "w", "o", "r", "l", "d", "\"">>), TestBody_Empty)}

custom_json_repsonse ==
    {TestClient("GET", <<"/", "t", "e", "s", "t", "/", "j", "s", "o", "n", "R", "e", "s", "p", "o", "n", "s", "e">>,
               {<<"Accept", <<"a", "p", "p", "l", "i", "c", "a", "t", "i", "o", "n", "/", "j", "s", "o", "n">>>>},
               TestBody_Empty, TestBody_Json(<<"\"", "h", "e", "l", "l", "o", " ", "w", "o", "r", "l", "d", "\"">>))}

query_params ==
    {TestClient("GET", <<"/", "t", "e", "s", "t", "/", "q", "u", "e", "r", "y", "P", "a", "r", "a", "m", "s", "?", "n", "o", "r", "m", "a", "l", "=", "h", "e", "l", "l", "o", "%", "2", "0", "w", "o", "r", "l", "d", "&", "c", "u", "s", "t", "o", "m", "=", "1", "0", "&", "l", "i", "s", "t", "=", "1", "&", "l", "i", "s", "t", "=", "2", "&", "s", "e", "t", "=", "t", "r", "u", "e">>,
               {<<"Accept", <<"a", "p", "p", "l", "i", "c", "a", "t", "i", "o", "n", "/", "j", "s", "o", "n">>>>},
               TestBody_Empty, TestBody_Empty),
     TestClient("GET", <<"/", "t", "e", "s", "t", "/", "q", "u", "e", "r", "y", "P", "a", "r", "a", "m", "s", "?", "n", "o", "r", "m", "a", "l", "=", "f", "o", "o">>,
               {<<"Accept", <<"a", "p", "p", "l", "i", "c", "a", "t", "i", "o", "n", "/", "j", "s", "o", "n">>>>},
               TestBody_Empty, TestBody_Empty)}

path_params ==
    {TestClient("GET", <<"/", "t", "e", "s", "t", "/", "p", "a", "t", "h", "P", "a", "r", "a", "m", "s", "/", "h", "e", "l", "l", "o", "%", "2", "0", "w", "o", "r", "l", "d", "/", "f", "a", "l", "s", "e", "/", "r", "a", "w", "/", "r", "i", ".", "c", "o", "n", "j", "u", "r", "e", ".", "m", "a", "i", "n", ".", "t", "e", "s", "t", ".", "f", "o", "o">>,
               {<<"Accept", <<"a", "p", "p", "l", "i", "c", "a", "t", "i", "o", "n", "/", "j", "s", "o", "n">>>>},
               TestBody_Empty, TestBody_Empty)}

empty_request ==
    {TestClient("POST", <<"/", "t", "e", "s", "t", "/", "e", "m", "p", "t", "y", "R", "e", "q", "u", "e", "s", "t">>,
               {<<"Accept", <<"a", "p", "p", "l", "i", "c", "a", "t", "i", "o", "n", "/", "j", "s", "o", "n">>>>},
               TestBody_Empty, TestBody_Empty)}

unexpected_json_response ==
    {TestClient("POST", <<"/", "t", "e", "s", "t", "/", "e", "m", "p", "t", "y", "R", "e", "q", "u", "e", "s", "t">>,
               {<<"Accept", <<"a", "p", "p", "l", "i", "c", "a", "t", "i", "o", "n", "/", "j", "s", "o", "n">>>>},
               TestBody_Empty, TestBody_Json(<<"\"", "h", "e", "l", "l", "o", " ", "w", "o", "r", "l", "d", "\"">>))}

json_request ==
    {TestClient("POST", <<"/", "t", "e", "s", "t", "/", "j", "s", "o", "n", "R", "e", "q", "u", "e", "s", "t">>,
               {<<"Content-Type", <<"a", "p", "p", "l", "i", "c", "a", "t", "i", "o", "n", "/", "j", "s", "o", "n">>>>, <<"Content-Length", <<"1", "3">>>>, <<"Accept", <<"a", "p", "p", "l", "i", "c", "a", "t", "i", "o", "n", "/", "j", "s", "o", "n">>>>},
               TestBody_Json(<<"\"", "h", "e", "l", "l", "o", " ", "w", "o", "r", "l", "d", "\"">>), TestBody_Empty)}

optional_json_request ==
    {TestClient("POST", <<"/", "t", "e", "s", "t", "/", "o", "p", "t", "i", "o", "n", "a", "l", "J", "s", "o", "n", "R", "e", "q", "u", "e", "s", "t">>,
               {<<"Content-Type", <<"a", "p", "p", "l", "i", "c", "a", "t", "i", "o", "n", "/", "j", "s", "o", "n">>>>, <<"Content-Length", <<"1", "3">>>>, <<"Accept", <<"a", "p", "p", "l", "i", "c", "a", "t", "i", "o", "n", "/", "j", "s", "o", "n">>>>},
               TestBody_Json(<<"\"", "h", "e", "l", "l", "o", " ", "w", "o", "r", "l", "d", "\"">>), TestBody_Empty),
     TestClient("POST", <<"/", "t", "e", "s", "t", "/", "o", "p", "t", "i", "o", "n", "a", "l", "J", "s", "o", "n", "R", "e", "q", "u", "e", "s", "t">>,
               {<<"Content-Type", <<"a", "p", "p", "l", "i", "c", "a", "t", "i", "o", "n", "/", "j", "s", "o", "n">>>>, <<"Content-Length", <<"4">>>>, <<"Accept", <<"a", "p", "p", "l", "i", "c", "a", "t", "i", "o", "n", "/", "j", "s", "o", "n">>>>},
               TestBody_Json(<<"n", "u", "l", "l">>), TestBody_Empty)}

streaming_request ==
    {TestClient("POST", <<"/", "t", "e", "s", "t", "/", "s", "t", "r", "e", "a", "m", "i", "n", "g", "R", "e", "q", "u", "e", "s", "t">>,
               {<<"Content-Type", <<"a", "p", "p", "l", "i", "c", "a", "t", "i", "o", "n", "/", "o", "c", "t", "e", "t", "-", "s", "t", "r", "e", "a", "m">>>>, <<"Accept", <<"a", "p", "p", "l", "i", "c", "a", "t", "i", "o", "n", "/", "j", "s", "o", "n">>>>},
               TestBody_Streaming(<<0, 1, 2, 3>>), TestBody_Empty)}

json_response ==
    {TestClient("GET", <<"/", "t", "e", "s", "t", "/", "j", "s", "o", "n", "R", "e", "s", "p", "o", "n", "s", "e">>,
               {<<"Accept", <<"a", "p", "p", "l", "i", "c", "a", "t", "i", "o", "n", "/", "j", "s", "o", "n">>>>},
               TestBody_Empty, TestBody_Json(<<"\"", "h", "e", "l", "l", "o", " ", "w", "o", "r", "l", "d", "\"">>))}

optional_json_response ==
    {TestClient("GET", <<"/", "t", "e", "s", "t", "/", "o", "p", "t", "i", "o", "n", "a", "l", "J", "s", "o", "n", "R", "e", "s", "p", "o", "n", "s", "e">>,
               {<<"Accept", <<"a", "p", "p", "l", "i", "c", "a", "t", "i", "o", "n", "/", "j", "s", "o", "n">>>>},
               TestBody_Empty, TestBody_Json(<<"\"", "h", "e", "l", "l", "o", " ", "w", "o", "r", "l", "d", "\"">>)),
     TestClient("GET", <<"/", "t", "e", "s", "t", "/", "o", "p", "t", "i", "o", "n", "a", "l", "J", "s", "o", "n", "R", "e", "s", "p", "o", "n", "s", "e">>,
               {<<"Accept", <<"a", "p", "p", "l", "i", "c", "a", "t", "i", "o", "n", "/", "j", "s", "o", "n">>>>},
               TestBody_Empty, TestBody_Empty)}

TestClients ==
    custom_query_params
    \cup custom_path_params
    \cup custom_json_request
    \cup custom_json_repsonse
    \cup query_params
    \cup path_params
    \cup empty_request
    \cup unexpected_json_response
    \cup json_request
    \cup optional_json_request
    \cup streaming_request
    \cup json_response
    \cup optional_json_response

\* The arguments the tests call the clients with.
StrArgs == {<<"f", "o", "o">>, <<"h", "e", "l", "l", "o", " ", "w", "o", "r", "l", "d">>, <<"a", "&", "b", "=", "c", " ", "d">>, <<>>} \cup {<<"U+E9">>}
OptionalI32Args == {None, Some(10)}
I32ListArgs == {<<>>, <<1, 2>>, <<7>>}
BoolSetArgs == SUBSET BOOLEAN
MultiArgs == {<<>>, <<<<"f", "o", "o">>, <<"b", "a", "r", "/", "b", "a", "z">>>>, <<<<"a", " ", "b">>>>, <<<<>>>>}
RidArgs == {<<"r", "i", ".", "c", "o", "n", "j", "u", "r", "e", ".", "m", "a", "i", "n", ".", "t", "e", "s", "t", ".", "f", "o", "o">>}
OptionalStrArgs == {None} \cup {Some(s) : s \in StrArgs}
StreamingArgs == {<<0, 1, 2, 3>>, <<>>}
ExpectedResponses ==
    {<<"()">>, <<"String", <<"h", "e", "l", "l", "o", " ", "w", "o", "r", "l", "d">>>>, <<"Some", <<"h", "e", "l", "l", "o", " ", "w", "o", "r", "l", "d">>>>, <<"None">>}

\* A test: a TestClient is constructed and one check! or check_custom! uses it up.
InitClients ==
    \E client \in TestClients :
        /\ types = Doc(Enum, Enum, Enum)
        /\ names = [n \in Names |-> <<n>>]
        /\ package = [n \in Names |-> DefaultPackage]
        /\ strip_prefix = <<>>
        /\ has_double_cell = [n \in Names |-> None]
        /\ is_copy_cell = [n \in Names |-> None]
        /\ evals = [has_double |-> [n \in Names |-> 0], is_copy |-> [n \in Names |-> 0]]
        /\ writes = [has_double |-> [n \in Names |-> 0], is_copy |-> [n \in Names |-> 0]]
        /\ out = Out("TestClient::new", client, <<>>, FALSE, FALSE, <<>>)
        /\ crashed = FALSE

\* check! and check_custom!: the call through the blocking client, its
\* unwrap and the assertion on its value, then the same through the
\* asynchronous client.  A panic ends the test where it happens.
check(macro, endpoint, async_endpoint, args, expected_response) ==
    /\ ~crashed
    /\ out.op = "TestClient::new"
    /\ LET raw_client == out.this
           blocking == blocking_call(raw_client, endpoint, args)
           blocking_panic == blocking.panic \/ blocking.result # Some(expected_response)
           async == async_call(raw_client, async_endpoint, args)
           async_panic == async.panic \/ async.result # Some(expected_response)
           panic == blocking_panic \/ async_panic
       IN  /\ out' = Out(macro, raw_client,
                         [endpoint |-> endpoint, async_endpoint |-> async_endpoint,
                          args |-> args, expected_response |-> expected_response],
                         FALSE, panic,
                         [blocking |-> blocking,
                          async |-> IF blocking_panic THEN None ELSE Some(async)])
           /\ crashed' = panic
    /\ UNCHANGED <<types, names, package, strip_prefix, has_double_cell, is_copy_cell, evals, writes>>

Check(endpoint, args, expected_response) ==
    check("check!", endpoint, endpoint, args, expected_response)
CheckCustom(endpoint, async_endpoint, args, expected_response) ==
    check("check_custom!", endpoint, async_endpoint, args, expected_response)

NextClients ==
    \E expected_response \in ExpectedResponses :
        \/ \E normal \in StrArgs, list \in I32ListArgs :
              CheckCustom(CustomService_query_param, CustomServiceAsync_query_param,
                          <<normal, list>>, expected_response)
        \/ \E foo \in StrArgs, multi \in MultiArgs :
              CheckCustom(CustomService_path_param, CustomServiceAsync_path_param,
                          <<foo, multi>>, expected_response)
        \/ \E body \in StrArgs :
              CheckCustom(CustomService_json_request, CustomServiceAsync_json_request,
                          <<body>>, expected_response)
        \/ CheckCustom(CustomService_json_response, CustomServiceAsync_json_response,
                       <<>>, expected_response)
        \/ \E normal \in StrArgs, custom \in OptionalI32Args, list \in I32ListArgs,
              set \in BoolSetArgs :
              Check(TestService_query_params, <<normal, custom, list, set>>, expected_response)
        \/ \E foo \in StrArgs, bar \in BOOLEAN, baz \in RidArgs :
              Check(TestService_path_params, <<foo, bar, baz>>, expected_response)
        \/ Check(TestService_empty_request, <<>>, expected_response)
        \/ \E body \in StrArgs :
              Check(TestService_json_request, <<body>>, expected_response)
        \/ \E body \in OptionalStrArgs :
              Check(TestService_optional_json_request, <<body>>, expected_response)
        \/ \E body \in StreamingArgs :
              Check(TestService_streaming_request, <<body>>, expected_response)
        \/ Check(TestService_json_response, <<>>, expected_response)
        \/ Check(TestService_optional_json_response, <<>>, expected_response)

SpecClients == InitClients /\ [][NextClients]_vars


(***************************************************************************)
(* conjure_http::server: streaming response bodies.  A body is the bytes   *)
(* it will write, who owns its box, how often write_body was entered on it *)
(* and how much of it went out; a writer w is what it holds and the room   *)
(* it has left before its next write fails.                                *)
(***************************************************************************)
MaxBody == 3
BodyBytes == UNION {[1..n -> {0, 1}] : n \in 0..MaxBody}

Body(kind, bytes) == [kind |-> kind, bytes |-> bytes, owner |-> "response", calls |-> 0, sent |-> 0]
Writer(room) == [buf |-> <<>>, room |-> room]

\* Write::write_all: everything, or what fits and an error.
write_all(w, bytes) ==
    IF Len(bytes) <= w.room
    THEN [w |-> [buf |-> w.buf \o bytes, room |-> w.room - Len(bytes)], ok |-> TRUE]
    ELSE [w |-> [buf |-> w.buf \o SubSeq(bytes, 1, w.room), room |-> 0], ok |-> FALSE]

\* write_body on a borrowed body: the caller keeps the box.
write_body_borrowed(self, w) ==
    LET r == write_all(w, self.bytes) IN
    [body |-> [self EXCEPT !.calls = @ + 1, !.sent = Len(r.w.buf) - Len(w.buf)],
     w |-> r.w, result |-> IF r.ok THEN "Ok" ELSE "Err"]
\* <Vec<u8> as WriteBody<W>>::write_body: self is the box, moved in and
\* dropped when the call returns, with Ok or with the mapped error.
write_body(self, w) ==
    LET r == write_all(w, self.bytes) IN
    [body |-> [self EXCEPT !.owner = "dropped", !.calls = @ + 1,
                           !.sent = Len(r.w.buf) - Len(w.buf)],
     w |-> r.w, result |-> IF r.ok THEN "Ok" ELSE "Err"]

\* AsyncWriteBody::write_body: the box moves into the future the call
\* returns.
async_write_body(self) == [self EXCEPT !.owner = "future", !.calls = @ + 1]

\* One poll of that future: the next byte goes out and the future is
\* pending, or it is ready with Ok or with an error and drops the box.
poll(self, w) ==
    IF self.sent = Len(self.bytes)
    THEN [body |-> [self EXCEPT !.owner = "dropped"], w |-> w, result |-> "Ok"]
    ELSE LET r == write_all(w, <<self.bytes[self.sent + 1]>>) IN
         IF r.ok
         THEN [body |-> [self EXCEPT !.sent = @ + 1], w |-> r.w, result |-> "Pending"]
         ELSE [body |-> [self EXCEPT !.owner = "dropped"], w |-> r.w, result |-> "Err"]

\* A response with a streaming body and the writer it will be written to.
InitBodies ==
    \E kind \in {"WriteBody", "AsyncWriteBody"}, bytes \in BodyBytes, room \in 0..MaxBody :
        /\ types = Doc(Enum, Enum, Enum)
        /\ names = [n \in Names |-> <<n>>]
        /\ package = [n \in Names |-> DefaultPackage]
        /\ strip_prefix = <<>>
        /\ has_double_cell = [n \in Names |-> None]
        /\ is_copy_cell = [n \in Names |-> None]
        /\ evals = [has_double |-> [n \in Names |-> 0], is_copy |-> [n \in Names |-> 0]]
        /\ writes = [has_double |-> [n \in Names |-> 0], is_copy |-> [n \in Names |-> 0]]
        /\ out = Out("ResponseBody::Streaming", Body(kind, bytes), Writer(room),
                     FALSE, FALSE, None)
        /\ crashed = FALSE

BodyStep(op, r) ==
    /\ out' = Out(op, r.body, r.w, FALSE, FALSE, Some(r.result))
    /\ UNCHANGED <<types, names, package, strip_prefix, has_double_cell, is_copy_cell, evals,
                   writes, crashed>>

\* The server writes a blocking streaming body out.
WriteBody ==
    /\ out.this.kind = "WriteBody"
    /\ out.this.owner = "response"
    /\ BodyStep("WriteBody::write_body", write_body(out.this, out.arg))

\* The server asks for the future of an asynchronous streaming body.
AsyncWriteBody ==
    /\ out.this.kind = "AsyncWriteBody"
    /\ out.this.owner = "response"
    /\ BodyStep("AsyncWriteBody::write_body",
                [body |-> async_write_body(out.this), w |-> out.arg, result |-> "Pending"])

Poll ==
    /\ out.this.owner = "future"
    /\ BodyStep("Future::poll", poll(out.this, out.arg))

\* The future is dropped before it is ready, and the box with it.
Cancel ==
    /\ out.this.owner = "future"
    /\ BodyStep("drop(future)",
                [body |-> [out.this EXCEPT !.owner = "dropped"], w |-> out.arg,
                 result |-> "Cancelled"])

\* The response is dropped with its body unwritten.
DropResponse ==
    /\ out.this.owner = "response"
    /\ out.this.calls = 0
    /\ BodyStep("drop(response)",
                [body |-> [out.this EXCEPT !.owner = "dropped"], w |-> out.arg,
                 result |-> "Unwritten"])

NextBodies == WriteBody \/ AsyncWriteBody \/ Poll \/ Cancel \/ DropResponse

SpecBodies == InitBodies /\ [][NextBodies]_vars

(***************************************************************************)
(* Storage and setters on their own: a Context built from a document whose *)
(* type A is an object, under type names that collide with the built-in    *)
(* names or in packages of their own, then any sequence of rust_type,      *)
(* boxed_rust_type and setter_bounds calls for field types of every kind   *)
(* with A as the current type.                                             *)
(***************************************************************************)
StorageFieldTypes ==
    <<Integer, String, Datetime, Primitive("Binary"), Primitive("Any"),
      Primitive("Safelong"), Primitive("Boolean"), Primitive("Rid"), Uuid, Double,
      Primitive("Bearertoken"),
      Optional(String), Optional(Reference("B")), Optional(Reference("C")),
      Optional(Optional(Integer)),
      List(Reference("B")), List(String), Set(Reference("C")),
      Map(String, Reference("B")), Map(Reference("B"), Integer),
      List(Map(String, Integer)), List(External(Reference("B"))),
      Reference("B"), Reference("C"),
      External(Reference("B")), External(String), External(Optional(Reference("C"))),
      Optional(External(Reference("B")))>>

StorageTypes == {StorageFieldTypes[i] : i \in DOMAIN StorageFieldTypes}

StorageDefsB ==
    { Enum,
      Object(<<Field("a", Reference("A"))>>),
      Union(<<Field("a", Reference("A"))>>),
      Alias(Reference("C")),
      Alias(Optional(Reference("C"))),
      Alias(External(Reference("C"))),
      Alias(Optional(Reference("B"))),
      Alias(Datetime) }

StorageDefsC == {Object(<<>>), Alias(List(Integer))}

\* Type names that are, and are not, the short name of a built-in.
GuardedNames ==
    {<<"B", "o", "x">>, <<"O", "p", "t", "i", "o", "n">>, <<"S", "t", "r", "i", "n", "g">>, <<"V", "e", "c">>, <<"I", "n", "t", "o">>, <<"I", "n", "t", "o", "I", "t", "e", "r", "a", "t", "o", "r">>}

\* The names and packages of A, B and C: A or B named after a built-in with
\* every type in one package, or plain names with A and B apart.
StorageLayouts ==
    {[names |-> [n \in Names |-> IF n = "A" THEN a ELSE <<n>>],
      package |-> [n \in Names |-> DefaultPackage]] : a \in GuardedNames \cup {<<"A">>}}
    \cup {[names |-> [n \in Names |-> IF n = "B" THEN <<"B", "o", "x">> ELSE <<n>>],
           package |-> [n \in Names |-> DefaultPackage]]}
    \cup {[names |-> [n \in Names |-> <<n>>],
           package |-> [n \in Names |-> CASE n = "A" -> a [] n = "B" -> b
                                          [] OTHER -> DefaultPackage]] :
            a \in {DefaultPackage, <<"a", "p", "i", ".", "v", "2">>}, b \in {<<"t", "y", "p", "e", "s">>, <<"a", "p", "i", ".", "v", "2", ".", "x">>}}

\* The object A of the storage documents.
StorageObject ==
    Object(<<Field("b", Reference("B")), Field("c", Optional(Reference("C")))>>)

\* Every document under plain names in one package, and every layout for a
\* B that is an object and a B that is an alias of an optional.
StorageContexts ==
    {[doc |-> Doc(StorageObject, b, c),
      layout |-> [names |-> [n \in Names |-> <<n>>],
                  package |-> [n \in Names |-> DefaultPackage]]] :
        b \in StorageDefsB, c \in StorageDefsC}
    \cup {[doc |-> Doc(StorageObject, b, Object(<<>>)), layout |-> layout] :
            b \in {Object(<<Field("a", Reference("A"))>>), Alias(Optional(Reference("C")))},
            layout \in StorageLayouts}

InitStorage ==
    \E context \in StorageContexts :
        NewNamed(context.doc, context.layout.names, context.layout.package, None)

SetterBoundsOf(this_type, def) ==
    Query("setter_bounds", this_type, def, setter_bounds(this_type, def, StackLimit))

NextStorage ==
    \/ \E def \in StorageTypes : RustType("A", def)
    \/ \E def \in StorageTypes : BoxedRustType("A", def)
    \/ \E def \in StorageTypes : SetterBoundsOf("A", def)

SpecStorage == InitStorage /\ [][NextStorage]_vars

(***************************************************************************)
(* The two readings of an optional type on their own.                      *)
(***************************************************************************)
OptionInnerType(def) ==
    Query("option_inner_type", "", def, option_inner_type(def, StackLimit))

NextOptional ==
    \/ \E def \in CopyTypes : OptionInnerType(def)
    \/ \E def \in CopyTypes : IsOptional(def)

SpecOptional == InitClassify /\ [][NextOptional]_vars

(***************************************************************************)
(* Reachability in a document, for stating what the classifications are    *)
(* meant to compute.                                                       *)
(***************************************************************************)
\* The declared types a type names, at any depth.
RefsIn(t) == {u[2] : u \in {v \in SubTypes(t) : v[1] = "Reference"}}

\* The declared types a definition names.
DefRefs(n) == UNION {RefsIn(t) : t \in DefTypes(types[n])}

RECURSIVE RefClosure(_, _)

RefClosure(S, k) ==
    IF k = 0 THEN S ELSE RefClosure(S \cup UNION {DefRefs(n) : n \in S}, k - 1)

\* The declared types reachable from a type through definitions.
ReachableNames(t) == RefClosure(RefsIn(t), Cardinality(Names))

\* A double primitive is reachable from t through alias inners, object
\* fields, union variants, container items, references and fallbacks.
ReachesDouble(t) ==
    \/ Double \in SubTypes(t)
    \/ \E n \in ReachableNames(t) : \E u \in DefTypes(types[n]) : Double \in SubTypes(u)

(***************************************************************************)
(* C1: on a Context, after any sequence of earlier queries, has_double of  *)
(* a Reference to a declared type answers true exactly when a double is    *)
(* reachable from that type's definition, whatever was asked before.       *)
(***************************************************************************)
C1_HasDoubleIsReachability ==
    (out.op = "has_double" /\ ~out.ovf /\ out.arg[1] = "Reference")
        => (out.res = ReachesDouble(out.arg))

(***************************************************************************)
(* C2: has_double returns on every document, cyclic ones included, and     *)
(* evaluates the definition of each declared type at most once.            *)
(***************************************************************************)
C2_HasDoubleTerminatesEvaluatingOnce ==
    /\ out.op = "has_double" => ~out.ovf
    /\ \A n \in Names : evals.has_double[n] <= 1

\* has_double has answered for the union Expr of the cycle
\* union Expr { lit, pair: Pair }, object Pair { left: Expr, right: Expr },
\* having evaluated both definitions.
C2_Witness ==
    /\ types["A"] = Union(<<Field("lit", Integer), Field("pair", Reference("B"))>>)
    /\ types["B"] = Object(<<Field("left", Reference("A")), Field("right", Reference("A"))>>)
    /\ out.op = "has_double" /\ out.arg = Reference("A") /\ ~out.ovf /\ out.res = FALSE
    /\ evals.has_double["A"] = 1 /\ evals.has_double["B"] = 1

(***************************************************************************)
(* C3: on every document that satisfies the data model's invariants, each  *)
(* of needs_box, is_required, is_default, is_display, is_plain,            *)
(* is_iterable, is_list, is_set, is_binary and is_optional returns an      *)
(* answer for every type of the document, without unbounded recursion.     *)
(***************************************************************************)
UnmemoizedClassifications ==
    {"needs_box", "is_required", "is_default", "is_display", "is_plain",
     "is_iterable", "is_list", "is_set", "is_binary", "is_optional"}

C3_ClassificationsTerminate ==
    out.op \in UnmemoizedClassifications => ~out.ovf

(***************************************************************************)
(* The by-value storage graph of a document, read off the storage types    *)
(* the Context computes.                                                   *)
(***************************************************************************)
\* The storage an alias newtype wraps: rust_type of its inner type.
AliasStorage(n) == {rust_type(n, types[n][2])}

\* The storage of the fields of an object: boxed_rust_type of each field
\* type, when it is computed at all.
ObjectStorage(n) ==
    {boxed_rust_type(n, t, StackLimit).res :
        t \in {u \in DefTypes(types[n]) : ~boxed_rust_type(n, u, StackLimit).ovf}}

\* The storage of the payloads of a union: boxed_rust_type of each variant
\* type with the union as the current type.
UnionStorage(n) == ObjectStorage(n)

Storage(n) ==
    CASE types[n][1] = "Alias" -> AliasStorage(n)
      [] types[n][1] = "Enum" -> {}
      [] types[n][1] = "Object" -> ObjectStorage(n)
      [] types[n][1] = "Union" -> UnionStorage(n)

RECURSIVE ByValue(_)

\* The declared types a storage type holds by value: inside an Option, but
\* not behind a Box nor inside a Vec, BTreeSet or BTreeMap.
ByValue(tokens) ==
    CASE tokens[1] = "super" -> {tokens[Len(tokens)]}
      [] tokens[1] = "Option" -> ByValue(tokens[2])
      [] OTHER -> {}

\* The edges of the storage graph that are not behind a Box.
UnboxedEdges(n) == UNION {ByValue(tokens) : tokens \in Storage(n)}

RECURSIVE UnboxedClosure(_, _)

UnboxedClosure(S, k) ==
    IF k = 0 THEN S
    ELSE UnboxedClosure(S \cup UNION {UnboxedEdges(n) : n \in S}, k - 1)

\* n lies on a cycle of the storage graph none of whose edges is boxed.
OnUnboxedCycle(n) == n \in UnboxedClosure(UnboxedEdges(n), Cardinality(Names))

(***************************************************************************)
(* C4: once the Context has computed the storage of a definition, no       *)
(* declared type lies on a cycle of by-value storage without a Box; and    *)
(* the storage of the only field of an object, an Optional of a Reference  *)
(* to the object itself, is an Option of a Box.                            *)
(***************************************************************************)
C4_StorageCyclesAreBoxed ==
    (out.op \in {"rust_type", "boxed_rust_type"} /\ ~out.ovf)
        => /\ \A n \in Names : ~OnUnboxedCycle(n)
           /\ (/\ out.op = "boxed_rust_type"
               /\ types[out.this] = Object(<<Field("next", Optional(Reference(out.this)))>>))
                  => out.res = <<"Option", <<"Box", <<"super", out.this>>>>>>

(***************************************************************************)
(* What a union payload type comes to.                                     *)
(***************************************************************************)
RECURSIVE PayloadKind(_, _)

\* The kind of definition a payload type comes to, looking through
\* Optional, External and Alias: "Object", "Union", "Enum" or "Other".
PayloadKind(t, k) ==
    IF k = 0 THEN "Other"
    ELSE CASE t[1] \in {"Optional", "External"} -> PayloadKind(t[2], k)
           [] t[1] = "Reference" ->
                IF types[t[2]][1] = "Alias"
                THEN PayloadKind(types[t[2]][2], k - 1)
                ELSE types[t[2]][1]
           [] OTHER -> "Other"

RECURSIVE NamesObject(_)

\* The payload type is a Reference to an Object, directly or inside an
\* Optional or an External, with no Alias in between.
NamesObject(t) ==
    CASE t[1] \in {"Optional", "External"} -> NamesObject(t[2])
      [] t[1] = "Reference" -> types[t[2]][1] = "Object"
      [] OTHER -> FALSE

RECURSIVE HasBox(_)

\* The storage type holds its referenced type behind a Box.
HasBox(tokens) ==
    CASE tokens[1] = "Box" -> TRUE
      [] tokens[1] = "Option" -> HasBox(tokens[2])
      [] OTHER -> FALSE

\* boxed_rust_type has returned the storage of a payload of a union that
\* comes to an Object or a Union.
UnionPayloadStored ==
    /\ out.op = "boxed_rust_type" /\ ~out.ovf
    /\ types[out.this][1] = "Union"
    /\ PayloadKind(out.arg, Cardinality(Names) + 1) \in {"Object", "Union"}

EmittedBy(op) == out.op = op /\ ~out.ovf /\ ~out.panic

\* The traits the emitted item derives.
Derived == {out.res.derives[i] : i \in DOMAIN out.res.derives}

\* Equality, ordering and hash go through the NaN-total shim.
DerivesShim ==
    /\ \A i \in DOMAIN EduceDerives : EduceDerives[i] \in Derived
    /\ \A i \in DOMAIN PlainDerives : PlainDerives[i] \notin Derived

\* Equality, ordering and hash are derived directly.
DerivesPlain ==
    /\ \A i \in DOMAIN PlainDerives : PlainDerives[i] \in Derived
    /\ \A i \in DOMAIN EduceDerives : EduceDerives[i] \notin Derived

(***************************************************************************)
(* C6: an emitted alias takes equality, ordering and hash from the         *)
(* NaN-total shim if its inner type contains a double (directly, along a   *)
(* chain of aliases, or inside Optional, List, Set or Map), and derives    *)
(* PartialEq, Eq, PartialOrd, Ord and Hash directly otherwise.             *)
(***************************************************************************)
C6_AliasShimIffContainsDouble ==
    EmittedBy("aliases::generate")
        => IF ReachesDouble(types[out.this][2]) THEN DerivesShim ELSE DerivesPlain

(***************************************************************************)
(* C7: an emitted object derives PartialEq, Eq, PartialOrd, Ord and Hash   *)
(* directly if no field type contains a double, and takes them from the    *)
(* NaN-total shim if some field type contains one, directly, inside a      *)
(* container or through a Reference.                                       *)
(***************************************************************************)
C7_ObjectShimIffFieldContainsDouble ==
    EmittedBy("object::generate")
        => IF \E t \in DefTypes(types[out.this]) : ReachesDouble(t)
           THEN DerivesShim ELSE DerivesPlain

(***************************************************************************)
(* Value-copyable types, as the data model defines them.                   *)
(***************************************************************************)
ScalarPrimitives == {"Datetime", "Integer", "Double", "Safelong", "Boolean", "Uuid"}
HeapPrimitives == {"String", "Binary", "Any", "Rid", "Bearertoken"}

RECURSIVE ValueCopyable(_, _)

\* A scalar primitive, or an Optional, an External or an Alias of a
\* value-copyable type; nothing else.
ValueCopyable(t, k) ==
    IF k = 0 THEN FALSE
    ELSE CASE t[1] = "Primitive" -> t[2] \in ScalarPrimitives
           [] t[1] \in {"Optional", "External"} -> ValueCopyable(t[2], k)
           [] t[1] = "Reference" ->
                /\ types[t[2]][1] = "Alias"
                /\ ValueCopyable(types[t[2]][2], k - 1)
           [] OTHER -> FALSE

\* A field type that is never value-copyable: a List, a Set, a Map, a heap
\* primitive, or a Reference to an Enum, an Object or a Union.
NeverCopy(t) ==
    \/ t[1] \in {"List", "Set", "Map"}
    \/ t[1] = "Primitive" /\ t[2] \in HeapPrimitives
    \/ t[1] = "Reference" /\ types[t[2]][1] \in {"Enum", "Object", "Union"}

(***************************************************************************)
(* C8: an emitted object derives Copy exactly when every one of its field  *)
(* types is value-copyable; an object without fields derives Copy, and an  *)
(* object with a field that is a List, a Set, a Map, a heap primitive or a *)
(* Reference to an Enum, an Object or a Union does not.                    *)
(***************************************************************************)
C8_ObjectCopyIffAllFieldsCopy ==
    EmittedBy("object::generate")
        => LET field_types == DefTypes(types[out.this]) IN
           /\ ("Copy" \in Derived)
                <=> \A t \in field_types : ValueCopyable(t, Cardinality(Names) + 1)
           /\ field_types = {} => "Copy" \in Derived
           /\ (\E t \in field_types : NeverCopy(t)) => "Copy" \notin Derived

\* An object of a datetime and a reference to an alias of a datetime has
\* been emitted, deriving Copy.
C8_Witness ==
    /\ EmittedBy("object::generate") /\ out.this = "A"
    /\ types["A"] = ObjectOf(<<Datetime, Reference("C")>>)
    /\ types["C"] = Alias(Datetime)
    /\ "Copy" \in Derived

(***************************************************************************)
(* C10: the object emitter emits the constructor exactly for objects with  *)
(* fewer than 4 fields (new() for an object without fields), and emitting  *)
(* it never runs out of the generic parameter names T, U, V: each field    *)
(* takes at most one name, in order, and taking the next name never fails. *)
(***************************************************************************)
C10_ConstructorIffFewerThanFourFields ==
    out.op = "object::generate"
        => /\ ~out.panic
           /\ ~out.ovf =>
                LET n == Len(types[out.this][2])
                    constructor == out.res.constructor
                IN  /\ (constructor # None) <=> (n < 4)
                    /\ constructor # None =>
                         LET c == constructor[1]
                             taking == {i \in 1..n : c.arguments[i].param # None}
                         IN  /\ Len(c.arguments) = n
                             /\ Len(c.parameters) = Cardinality(taking)
                             /\ Len(c.parameters) <= 3
                             /\ c.parameters = SubSeq(<<"T", "U", "V">>, 1, Len(c.parameters))
                             /\ n = 0 => c.new_ = "new" /\ c.parameters = <<>>

\* An object of three fields that each take a generic parameter has been
\* emitted with a constructor over T, U and V.
C10_Witness ==
    /\ EmittedBy("object::generate") /\ out.this = "A"
    /\ types["A"] = ObjectOf(<<String, List(Integer), Optional(String)>>)
    /\ out.res.constructor # None
    /\ out.res.constructor[1].parameters = <<"T", "U", "V">>

(***************************************************************************)
(* C9: whenever is_copy answers true for a type, is_default answers true   *)
(* for it or the type is a value-only scalar (a scalar primitive, seen     *)
(* directly or through Alias and External); is_required answers false for  *)
(* every Optional; is_iterable answers false for every Primitive.          *)
(***************************************************************************)
RECURSIVE ValueOnlyScalar(_, _)

ValueOnlyScalar(t, k) ==
    IF k = 0 THEN FALSE
    ELSE CASE t[1] = "Primitive" -> t[2] \in ScalarPrimitives
           [] t[1] = "External" -> ValueOnlyScalar(t[2], k)
           [] t[1] = "Reference" ->
                /\ types[t[2]][1] = "Alias"
                /\ ValueOnlyScalar(types[t[2]][2], k - 1)
           [] OTHER -> FALSE

C9_CopyHasDefaultOrIsScalar ==
    /\ (out.op = "is_copy" /\ ~out.ovf /\ out.res)
          => \/ LET d == is_default(out.arg, StackLimit) IN ~d.ovf /\ d.res
             \/ ValueOnlyScalar(out.arg, Cardinality(Names) + 1)
    /\ (out.op = "is_required" /\ out.arg[1] = "Optional") => (~out.ovf /\ ~out.res)
    /\ (out.op = "is_iterable" /\ out.arg[1] = "Primitive") => (~out.ovf /\ ~out.res)

\* is_copy has answered true for a reference to an alias of a datetime,
\* which has no default.
C9_Witness ==
    /\ out.op = "is_copy" /\ ~out.ovf /\ out.res
    /\ out.arg = Reference("B") /\ types["B"] = Alias(Datetime)
    /\ ~is_default(out.arg, StackLimit).res

(***************************************************************************)
(* C11: the constructor an emitted object has is called new_ if a field of *)
(* the object is literally named new, and new otherwise.                   *)
(***************************************************************************)
C11_ConstructorRenamedIffFieldNamedNew ==
    (EmittedBy("object::generate") /\ out.res.constructor # None)
        => LET fs == types[out.this][2] IN
           out.res.constructor[1].new_
               = IF \E i \in 1..Len(fs) : field_name(fs[i]) = "new" THEN "new_" ELSE "new"

\* An object with the fields value and new has been emitted with the
\* constructor new_.
C11_Witness ==
    /\ EmittedBy("object::generate") /\ out.this = "A"
    /\ types["A"] = Object(<<Field("value", Integer), Field("new", Integer)>>)
    /\ out.res.constructor # None
    /\ out.res.constructor[1].new_ = "new_"

(***************************************************************************)
(* The reserved words of the target language: the strict keywords, the     *)
(* keywords reserved for future use and the weak keywords of Rust 2018.    *)
(***************************************************************************)
Edition2018Keywords == {<<"a", "s", "y", "n", "c">>, <<"a", "w", "a", "i", "t">>, <<"t", "r", "y">>}
RustReservedWords ==
    StrictKeywords \cup ReservedKeywords \cup WeakKeywords \cup Edition2018Keywords
        \cup {<<"m", "a", "c", "r", "o", "_", "r", "u", "l", "e", "s">>}

(***************************************************************************)
(* C12: the identifier of a field or a module is the snake-case form of    *)
(* the raw name with one underscore appended if that form is a reserved    *)
(* word of the target language, and the snake-case form itself otherwise;  *)
(* so the identifier is never a reserved word.                             *)
(***************************************************************************)
C12_FieldIdentEscapesReservedWords ==
    out.op \in {"field_name", "module_name"}
        => LET snake == to_snake_case(out.arg) IN
           /\ out.res = IF snake \in RustReservedWords THEN Append(snake, "_") ELSE snake
           /\ out.res \notin RustReservedWords

(***************************************************************************)
(* C13: module_path of a type is the list of the snake-cased components of *)
(* its package, without the leading components of the strip prefix if the  *)
(* list starts with the components of the strip prefix, component by       *)
(* component, and the whole list otherwise; without a strip prefix nothing *)
(* is removed.                                                             *)
(***************************************************************************)
C13_ModulePathStripsComponentPrefix ==
    out.op = "module_path"
        => LET pieces == split(package[out.arg], ".", 1, <<>>)
               canonical == [i \in DOMAIN pieces |-> field_ident(pieces[i])]
               begins == /\ Len(strip_prefix) <= Len(canonical)
                         /\ \A i \in DOMAIN strip_prefix : canonical[i] = strip_prefix[i]
           IN  /\ begins => out.res = SubSeq(canonical, Len(strip_prefix) + 1, Len(canonical))
               /\ ~begins => out.res = canonical
               /\ strip_prefix = <<>> => out.res = canonical

\* module_path of a type of com.acme.api under the strip prefix com.acme
\* is the one component api.
C13_Witness ==
    /\ out.op = "module_path" /\ out.arg = "A"
    /\ package["A"] = <<"c", "o", "m", ".", "a", "c", "m", "e", ".", "a", "p", "i">>
    /\ strip_prefix = <<<<"c", "o", "m">>, <<"a", "c", "m", "e">>>>
    /\ out.res = <<<<"a", "p", "i">>>>

\* An identifier as the canonicalizer leaves it: not empty, and left alone
\* by a second pass.
Canonicalized(ident) == ident # <<>> /\ ident_name(ident) = ident

(***************************************************************************)
(* C14 as stated: module_path of every declared type, under every strip    *)
(* prefix, is not empty and all its components are canonicalized           *)
(* identifiers.                                                            *)
(***************************************************************************)
C14_ModulePathNonempty ==
    out.op = "module_path"
        => /\ out.res # <<>>
           /\ \A i \in DOMAIN out.res : Canonicalized(out.res[i])

(***************************************************************************)
(* C14 as amended: all components of module_path of a declared type are    *)
(* canonicalized identifiers, and module_path is empty exactly when the    *)
(* strip prefix is the whole package of the type.                          *)
(***************************************************************************)
C14_ModulePathEmptyIffWholePackageStripped ==
    out.op = "module_path"
        => /\ (out.res = <<>>) <=> (strip_prefix = raw_module_path(package[out.arg]))
           /\ \A i \in DOMAIN out.res : Canonicalized(out.res[i])

\* module_path of a type of com.acme.api under the strip prefix
\* com.acme.api is empty.
C14_Witness ==
    /\ out.op = "module_path" /\ out.arg = "C"
    /\ package["C"] = <<"c", "o", "m", ".", "a", "c", "m", "e", ".", "a", "p", "i">>
    /\ strip_prefix = <<<<"c", "o", "m">>, <<"a", "c", "m", "e">>, <<"a", "p", "i">>>>
    /\ out.res = <<>>

(***************************************************************************)
(* Following a path of tokens through the module tree.                     *)
(***************************************************************************)
\* The modules a type's own module lies in, the root first, ending with
\* the module of the type itself.
OwnModule(name) ==
    LET path == module_path(name) IN
    [i \in DOMAIN path |-> ToStr(path[i])] \o <<ToStr(module_name(name_(name)))>>

RECURSIVE Follow(_, _, _)

\* Where the first n tokens lead from the module at: one step up per super,
\* one step down per other token; climbing above the root fails.
Follow(at, tokens, i) ==
    IF i > Len(tokens) - 1 THEN [ok |-> TRUE, at |-> at]
    ELSE IF tokens[i] = "super"
    THEN IF at = <<>> THEN [ok |-> FALSE, at |-> at]
         ELSE Follow(SubSeq(at, 1, Len(at) - 1), tokens, i + 1)
    ELSE Follow(Append(at, tokens[i]), tokens, i + 1)

\* The length of the longest common prefix of two sequences.
SharedPrefix(a, b) ==
    CHOOSE k \in 0..Len(a) :
        /\ k <= Len(b)
        /\ \A i \in 1..k : a[i] = b[i]
        /\ (k < Len(a) /\ k < Len(b)) => a[k + 1] # b[k + 1]

(***************************************************************************)
(* C15: from the own module of a declared type, the tokens of type_path to *)
(* a declared type lead, one parent step per super and then the descents,  *)
(* to module_path of the target, never climbing above the root; the last   *)
(* token is the type identifier of the target; and the number of super     *)
(* steps is 1 plus the number of components of module_path of the source   *)
(* that the target does not share.                                         *)
(***************************************************************************)
C15_TypePathResolves ==
    out.op = "type_path"
        => LET from == module_path(out.this)
               to == module_path(out.arg)
               tokens == out.res
               end == Follow(OwnModule(out.this), tokens, 1)
               supers == Cardinality({i \in DOMAIN tokens : tokens[i] = "super"})
           IN  /\ end.ok
               /\ end.at = [i \in DOMAIN to |-> ToStr(to[i])]
               /\ tokens[Len(tokens)] = ToStr(type_name(name_(out.arg)))
               /\ supers = 1 + (Len(from) - SharedPrefix(from, to))
               /\ \A i \in 1..supers : tokens[i] = "super"

\* From a type of com.acme.api the path to a type of org.api climbs out of
\* the type's module and its three package modules and descends twice.
C15_Witness ==
    /\ out.op = "type_path" /\ out.this = "C" /\ out.arg = "B"
    /\ package["B"] = <<"o", "r", "g", ".", "a", "p", "i">>
    /\ strip_prefix = <<>>
    /\ out.res = <<"super", "super", "super", "super", "org", "api", "B">>

(***************************************************************************)
(* C16: DoubleKey's eq, partial_cmp and cmp are one total order on doubles *)
(* in which NaN equals NaN and is greater than every other value: cmp is   *)
(* reflexive, antisymmetric, transitive and total, eq holds exactly when   *)
(* cmp is Equal, partial_cmp is Some of cmp, and equal keys feed the       *)
(* hasher the same.                                                        *)
(***************************************************************************)
AtMost(a, b) == cmp(a, b) \in {"Less", "Equal"}

C16_DoubleKeyTotalOrder ==
    /\ out.op = "DoubleKey::eq" =>
          LET a == out.arg[1]
              b == out.arg[2]
          IN  /\ out.res <=> (cmp(a, b) = "Equal")
              /\ out.res => hash(a) = hash(b)
              /\ (a.nan /\ b.nan) => out.res
              /\ a = b => out.res
    /\ out.op = "DoubleKey::partial_cmp" =>
          out.res = Some(cmp(out.arg[1], out.arg[2]))
    /\ out.op = "DoubleKey::cmp" =>
          LET a == out.arg[1]
              b == out.arg[2]
          IN  /\ out.res \in {"Less", "Equal", "Greater"}
              /\ cmp(a, a) = "Equal"
              /\ (out.res = "Less") <=> (cmp(b, a) = "Greater")
              /\ (out.res = "Equal") <=> (cmp(b, a) = "Equal")
              /\ \A c \in Doubles : (AtMost(a, b) /\ AtMost(b, c)) => AtMost(a, c)
              /\ (a.nan /\ ~b.nan) => out.res = "Greater"
              /\ (~a.nan /\ ~b.nan /\ a.place < b.place) => out.res = "Less"
    /\ out.op = "DoubleKey::hash" =>
          \A b \in Doubles : eq(out.arg[1], b) => hash(b) = out.res

\* Two NaNs of different bit patterns have been compared equal.
C16_Witness ==
    /\ out.op = "DoubleKey::eq"
    /\ out.arg[1].nan /\ out.arg[2].nan /\ out.arg[1].bits # out.arg[2].bits
    /\ out.res = TRUE

(***************************************************************************)
(* Reading a request URI back: its path segments and its query pairs, with *)
(* the percent-encoding undone.                                            *)
(***************************************************************************)
Count(s, c) == Cardinality({i \in DOMAIN s : s[i] = c})

\* The k-th smallest member of a set of positions.
Nth(positions, k) == CHOOSE i \in positions : Cardinality({j \in positions : j < i}) = k - 1

\* The pieces of s between the occurrences of sep, the empty ones included.
Pieces(s, sep) ==
    LET at == {i \in DOMAIN s : s[i] = sep}
        n == Cardinality(at)
    IN  [k \in 1..(n + 1) |->
            SubSeq(s, (IF k = 1 THEN 0 ELSE Nth(at, k - 1)) + 1,
                      (IF k = n + 1 THEN Len(s) + 1 ELSE Nth(at, k)) - 1)]

\* The bytes of a percent-encoded text: a % and its two digits are one byte.
PercentDecodeBytes(s) ==
    LET starts == {i \in DOMAIN s : /\ ~(i > 1 /\ s[i - 1] = "%")
                                     /\ ~(i > 2 /\ s[i - 2] = "%")}
    IN  [k \in 1..Cardinality(starts) |->
            IF s[Nth(starts, k)] = "%"
            THEN CHOOSE b \in DOMAIN Hex :
                     Hex[b] = <<s[Nth(starts, k) + 1], s[Nth(starts, k) + 2]>>
            ELSE s[Nth(starts, k)]]

PercentDecode(s) == from_utf8(PercentDecodeBytes(s))

UriPath(uri) == Pieces(uri, "?")[1]
UriSegments(uri) ==
    [i \in 1..(Len(Pieces(UriPath(uri), "/")) - 1) |->
        PercentDecode(Pieces(UriPath(uri), "/")[i + 1])]

\* The name=value pieces of the query, or none when the URI has no '?'.
QueryPieces(uri) ==
    IF Count(uri, "?") = 0 THEN <<>> ELSE Pieces(Pieces(uri, "?")[2], "&")
WellFormedQuery(uri) ==
    /\ Count(uri, "?") <= 1
    /\ \A i \in DOMAIN QueryPieces(uri) :
          /\ Count(QueryPieces(uri)[i], "=") = 1
          /\ QueryPieces(uri)[i][1] # "="
QueryPairs(uri) ==
    [i \in DOMAIN QueryPieces(uri) |->
        <<PercentDecode(Pieces(QueryPieces(uri)[i], "=")[1]),
          PercentDecode(Pieces(QueryPieces(uri)[i], "=")[2])>>]

Shown(n) == CASE n = 1 -> <<"1">> [] n = 2 -> <<"2">> [] n = 7 -> <<"7">> [] n = 10 -> <<"1", "0">>
Checked == out.op \in {"check!", "check_custom!"}

\* The pairs of the list and of the set argument.
ListPairs(l) == [i \in DOMAIN l |-> <<<<"l", "i", "s", "t">>, Shown(l[i])>>]
SetPairs(s) ==
    (IF FALSE \in s THEN <<<<<<"s", "e", "t">>, <<"f", "a", "l", "s", "e">>>>>> ELSE <<>>)
    \o (IF TRUE \in s THEN <<<<<<"s", "e", "t">>, <<"t", "r", "u", "e">>>>>> ELSE <<>>)

(***************************************************************************)
(* C17: the Query arguments of a request contribute name=value pairs in    *)
(* the declaration order of the arguments: a required scalar one pair, an  *)
(* absent optional none, a list or set one pair per element in iteration   *)
(* order; the first pair follows the '?', consecutive pairs are separated  *)
(* by exactly one '&', an argument without pairs adds no separator, and a  *)
(* space in a value is sent as %20.                                        *)
(***************************************************************************)
C17_QueryPairsInDeclarationOrder ==
    (Checked /\ out.arg.endpoint.name \in {"query_params", "query_param"}) =>
        LET uri == out.res.blocking.request.uri
            args == out.arg.args
            normal == <<<<<<"n", "o", "r", "m", "a", "l">>, args[1]>>>>
            custom == IF args[2] = None THEN <<>> ELSE <<<<<<"c", "u", "s", "t", "o", "m">>, Shown(args[2][1])>>>>
            pairs == IF out.arg.endpoint.name = "query_params"
                     THEN normal \o custom \o ListPairs(args[3]) \o SetPairs(args[4])
                     ELSE normal \o ListPairs(args[2])
        IN  /\ WellFormedQuery(uri)
            /\ QueryPairs(uri) = pairs
            /\ Count(uri, "&") = Len(pairs) - 1
            /\ Count(uri, "=") = Len(pairs)
            /\ Count(uri, " ") = 0 /\ Count(uri, "+") = 0
            /\ Count(uri, "%") = Count(args[1], " ") + Count(args[1], "&") + Count(args[1], "=")
                                 + 2 * Count(args[1], "U+E9")

\* custom_query_params: the macro-declared client sends hello world and
\* [1, 2] as the URI the test expects, and check_custom! passes.
C17_Witness ==
    /\ out.op = "check_custom!"
    /\ out.arg.endpoint.name = "query_param"
    /\ out.arg.args = <<<<"h", "e", "l", "l", "o", " ", "w", "o", "r", "l", "d">>, <<1, 2>>>>
    /\ out.res.blocking.request.uri = <<"/", "t", "e", "s", "t", "/", "q", "u", "e", "r", "y", "P", "a", "r", "a", "m", "s", "?", "n", "o", "r", "m", "a", "l", "=", "h", "e", "l", "l", "o", "%", "2", "0", "w", "o", "r", "l", "d", "&", "l", "i", "s", "t", "=", "1", "&", "l", "i", "s", "t", "=", "2">>
    /\ ~out.panic

(***************************************************************************)
(* C18: a multi-valued Path parameter contributes one percent-encoded      *)
(* segment per element, joined by '/', a '/' inside an element being sent  *)
(* as %2F, so that the segments added are as many as the elements; a       *)
(* single-valued Path parameter contributes exactly one segment.           *)
(***************************************************************************)
C18_PathSegmentPerElement ==
    /\ (Checked /\ out.arg.endpoint.name = "path_param") =>
          LET uri == out.res.blocking.request.uri
              args == out.arg.args
          IN  /\ UriSegments(uri) = <<<<"t", "e", "s", "t">>, <<"p", "a", "t", "h", "P", "a", "r", "a", "m", "s">>, args[1], <<"r", "a", "w">>>> \o args[2]
              /\ Count(uri, "/") = 4 + Len(args[2])
              /\ Count(uri, "?") = 0
    /\ (Checked /\ out.arg.endpoint.name = "path_params") =>
          LET uri == out.res.blocking.request.uri
              args == out.arg.args
          IN  /\ UriSegments(uri) = <<<<"t", "e", "s", "t">>, <<"p", "a", "t", "h", "P", "a", "r", "a", "m", "s">>, args[1],
                                      IF args[2] THEN <<"t", "r", "u", "e">> ELSE <<"f", "a", "l", "s", "e">>,
                                      <<"r", "a", "w">>, args[3]>>
              /\ Count(uri, "/") = 6

\* custom_path_params: foo and bar/baz are sent as foo/bar%2Fbaz, and
\* check_custom! passes.
C18_Witness ==
    /\ out.op = "check_custom!"
    /\ out.arg.endpoint.name = "path_param"
    /\ out.arg.args[2] = <<<<"f", "o", "o">>, <<"b", "a", "r", "/", "b", "a", "z">>>>
    /\ out.res.blocking.request.uri = <<"/", "t", "e", "s", "t", "/", "p", "a", "t", "h", "P", "a", "r", "a", "m", "s", "/", "h", "e", "l", "l", "o", "%", "2", "0", "w", "o", "r", "l", "d", "/", "r", "a", "w", "/", "f", "o", "o", "/", "b", "a", "r", "%", "2", "F", "b", "a", "z">>
    /\ ~out.panic

(***************************************************************************)
(* The body headers of a request.                                          *)
(***************************************************************************)
HeaderNames(req) == {h[1] : h \in req.headers}
SerializedBody(name, args) ==
    IF name = "optional_json_request" /\ args[1] = None THEN <<"n", "u", "l", "l">>
    ELSE LET s == IF name = "optional_json_request" THEN args[1][1] ELSE args[1] IN
         <<"\"">> \o utf8(s) \o <<"\"">>
JsonBodyTyped(req, name, args) ==
    /\ req.body = <<"Fixed", SerializedBody(name, args)>>
    /\ <<"Content-Type", <<"a", "p", "p", "l", "i", "c", "a", "t", "i", "o", "n", "/", "j", "s", "o", "n">>>> \in req.headers
JsonBodyMeasured(req) ==
    \E n \in 0..64 :
        /\ n = Len(req.body[2])
        /\ {h \in req.headers : h[1] = "Content-Length"} = {<<"Content-Length", decimal(n)>>}
OtherBodies(req, name) ==
    /\ name \in {"empty_request", "json_response", "optional_json_response", "query_params",
                 "query_param", "path_params", "path_param"} =>
          /\ req.body = <<"Empty">>
          /\ HeaderNames(req) \cap {"Content-Type", "Content-Length"} = {}
    /\ name = "streaming_request" =>
          /\ req.body[1] = "Streaming"
          /\ <<"Content-Type", <<"a", "p", "p", "l", "i", "c", "a", "t", "i", "o", "n", "/", "o", "c", "t", "e", "t", "-", "s", "t", "r", "e", "a", "m">>>> \in req.headers

(***************************************************************************)
(* C19: every request with a JSON Body argument carries Content-Type:      *)
(* application/json and a Content-Length equal to the byte length of the   *)
(* serialized body; an absent optional JSON body is the 4-byte text null;  *)
(* a request without a Body argument has an empty body and neither header; *)
(* a streaming body carries Content-Type: application/octet-stream.        *)
(***************************************************************************)
C19_JsonBodyTypedAndMeasured ==
    Checked =>
        LET req == out.res.blocking.request
            name == out.arg.endpoint.name
        IN  /\ name \in {"json_request", "optional_json_request"} =>
                  /\ JsonBodyTyped(req, name, out.arg.args)
                  /\ JsonBodyMeasured(req)
            /\ OtherBodies(req, name)

(***************************************************************************)
(* C19, amended: the clients generated from the IR send a JSON body with   *)
(* Content-Type: application/json and a byte-exact Content-Length; the     *)
(* macro-declared clients send it with Content-Type: application/json and  *)
(* no Content-Length; the rest as stated.                                  *)
(***************************************************************************)
C19_JsonBodyMeasuredByGeneratedClients ==
    Checked =>
        LET req == out.res.blocking.request
            name == out.arg.endpoint.name
        IN  /\ name \in {"json_request", "optional_json_request"} =>
                  /\ JsonBodyTyped(req, name, out.arg.args)
                  /\ out.op = "check!" => JsonBodyMeasured(req)
                  /\ out.op = "check_custom!" => "Content-Length" \notin HeaderNames(req)
            /\ OtherBodies(req, name)

\* custom_json_request passes: the macro-declared client sent "hello world"
\* as a JSON body under Content-Type alone.
C19_Witness ==
    /\ out.op = "check_custom!" /\ ~out.panic
    /\ out.arg.endpoint.name = "json_request"
    /\ out.res.blocking.request.body[1] = "Fixed"
    /\ out.res.blocking.request.headers = {<<"Content-Type", <<"a", "p", "p", "l", "i", "c", "a", "t", "i", "o", "n", "/", "j", "s", "o", "n">>>>}

(***************************************************************************)
(* C20: for every endpoint and every argument tuple the blocking and the   *)
(* asynchronous client hand the transport the same request (method, URI,   *)
(* header map, body kind and bytes) and, the transport responding alike,   *)
(* return the same result.                                                 *)
(***************************************************************************)
SameExchange(a, b) ==
    /\ a.request = b.request
    /\ a.body = b.body
    /\ a.panic = b.panic
    /\ a.result = b.result

C21_BodyWrittenAtMostOnceAndReleased ==
    /\ out.this.calls <= 1
    /\ out.this.calls = 1 => out.this.owner # "response"
    /\ (out.res # None /\ out.res[1] \in {"Ok", "Err", "Cancelled", "Unwritten"}) =>
          out.this.owner = "dropped"
    /\ out.this.owner = "dropped" => ~(ENABLED WriteBody) /\ ~(ENABLED AsyncWriteBody)

\* A blocking body whose write failed half way: write_body has returned the
\* error and the body is gone.
C21_Witness ==
    /\ out.op = "WriteBody::write_body"
    /\ out.res = Some("Err")
    /\ out.this.sent > 0 /\ out.this.sent < Len(out.this.bytes)
    /\ out.this.owner = "dropped"

(***************************************************************************)
(* C22: is_copy(Reference(A)) on an Alias A whose inner type leads back to *)
(* A through Optional and Alias links alone (A = optional<A>) terminates:  *)
(* the cell of A is put in progress before A's definition is examined, so  *)
(* the re-entrant query returns the in-progress false and does not recurse.*)
(***************************************************************************)
C22_IsCopyTerminatesOnAliasCycles ==
    (out.op = "is_copy" /\ types["A"] = Alias(Optional(Reference("A")))) =>
        /\ ~out.ovf
        /\ out.arg = Reference("A") => evals.is_copy["A"] = 1

(***************************************************************************)
(* C23: across any sequence of has_double and is_copy queries on one       *)
(* Context, each TypeName's has_double cell and is_copy cell is written at *)
(* most twice, only along unknown -> in-progress false -> resolved value:  *)
(* a cell never written is unknown, the first write stores the in-progress *)
(* false, and nothing is written after the second.                         *)
(***************************************************************************)
C23_CellsWrittenInProgressThenResolved ==
    \A n \in Names :
        /\ writes.has_double[n] <= 2 /\ writes.is_copy[n] <= 2
        /\ writes.has_double[n] = 0 <=> has_double_cell[n] = None
        /\ writes.is_copy[n] = 0 <=> is_copy_cell[n] = None
        /\ writes.has_double[n] = 1 => has_double_cell[n] = Some(FALSE)
        /\ writes.is_copy[n] = 1 => is_copy_cell[n] = Some(FALSE)

(***************************************************************************)
(* Readers of storage types that spell a built-in short or long.           *)
(***************************************************************************)
IsBox(token) == token \in {"Box", "std::boxed::Box"}
IsOption(token) == token \in {"Option", "std::option::Option"}

RECURSIVE BoxInside(_)

\* The storage type is a Box, or Options around a Box.
BoxInside(tokens) ==
    CASE IsBox(tokens[1]) -> TRUE
      [] IsOption(tokens[1]) -> BoxInside(tokens[2])
      [] OTHER -> FALSE

RECURSIVE Unboxed(_)

\* The storage type without that Box.
Unboxed(tokens) ==
    CASE IsBox(tokens[1]) -> tokens[2]
      [] IsOption(tokens[1]) -> <<tokens[1], Unboxed(tokens[2])>>
      [] OTHER -> tokens

\* needs_indirection as the classification table gives it: a Reference to
\* an Object or a Union, looking through Alias, Optional and External.
NeedsIndirection(t) == PayloadKind(t, Cardinality(Names) + 1) \in {"Object", "Union"}

(***************************************************************************)
(* C24: in Object emission, the storage type boxed_rust_type(owner, T) of  *)
(* a field type T holds a Box around the referenced type iff               *)
(* needs_indirection(T); the Box is inside the Option of an Optional       *)
(* field, what is in the Box is what rust_type stores, and without         *)
(* needs_indirection(T) the storage type is rust_type(owner, T).           *)
(***************************************************************************)
C24_BoxedIffNeedsIndirection ==
    (out.op = "boxed_rust_type" /\ types[out.this][1] = "Object" /\ ~out.ovf) =>
        /\ BoxInside(out.res) <=> NeedsIndirection(out.arg)
        /\ NeedsIndirection(out.arg) = needs_box(out.arg, StackLimit).res
        /\ Unboxed(out.res) = rust_type(out.this, out.arg)
        /\ ~NeedsIndirection(out.arg) => out.res = rust_type(out.this, out.arg)
        /\ out.arg[1] = "Optional" => IsOption(out.res[1])

\* An optional field that refers to an alias of an object: an Option of a
\* Box of the alias.
C24_Witness ==
    /\ out.op = "boxed_rust_type" /\ ~out.ovf
    /\ out.this = "A" /\ types["A"][1] = "Object"
    /\ out.arg = Optional(Reference("B"))
    /\ types["B"] = Alias(Reference("C")) /\ types["C"][1] = "Object"
    /\ out.res = <<"Option", <<"Box", <<"super", "B">>>>>>

(***************************************************************************)
(* The item of an optional type, looking through External and through a    *)
(* Reference to an Alias, and without looking through a Reference.         *)
(***************************************************************************)
RECURSIVE OptionInner(_, _)

OptionInner(t, k) ==
    IF k = 0 THEN None
    ELSE CASE t[1] = "Optional" -> Some(t[2])
           [] t[1] = "External" -> OptionInner(t[2], k)
           [] t[1] = "Reference" ->
                IF types[t[2]][1] = "Alias" THEN OptionInner(types[t[2]][2], k - 1)
                ELSE None
           [] OTHER -> None

RECURSIVE OptionInnerStructural(_)

OptionInnerStructural(t) ==
    CASE t[1] = "Optional" -> Some(t[2])
      [] t[1] = "External" -> OptionInnerStructural(t[2])
      [] OTHER -> None

\* One of the two readings of an optional type has returned.
OptionInnerReturned == out.op \in {"option_inner_type", "is_optional"} /\ ~out.ovf

(***************************************************************************)
(* C25 as stated: option_inner of a Reference to an Alias is option_inner  *)
(* of the alias's inner type (X for an Alias A = optional<X>); it is none  *)
(* for a Reference to an Enum, Object or Union and for every Primitive,    *)
(* List, Set and Map, and the answer for the fallback of an External.      *)
(***************************************************************************)
C25_OptionInnerLooksThroughAliases ==
    OptionInnerReturned => out.res = OptionInner(out.arg, Cardinality(Names) + 1)

(***************************************************************************)
(* C25 as amended: is_optional looks through a Reference to an Alias (X    *)
(* for an Alias A = optional<X>); option_inner_type, which the constructor *)
(* asks, does not look through a Reference at all: it is the item of an    *)
(* Optional, the answer for the fallback of an External, and none for      *)
(* every Reference (to an Alias of an optional too), Primitive, List, Set  *)
(* and Map.                                                                *)
(***************************************************************************)
C25_OptionInnerTypeStopsAtReferences ==
    /\ (out.op = "is_optional" /\ ~out.ovf) =>
          out.res = OptionInner(out.arg, Cardinality(Names) + 1)
    /\ (out.op = "option_inner_type" /\ ~out.ovf) =>
          /\ out.res = OptionInnerStructural(out.arg)
          /\ out.arg[1] = "Reference" => out.res = None

\* option_inner_type of a Reference to the alias A = optional<A>: none,
\* where is_optional gives the item.
C25_Witness ==
    /\ out.op = "option_inner_type" /\ ~out.ovf
    /\ out.arg = Reference("A")
    /\ types["A"] = Alias(Optional(Reference("A")))
    /\ out.res = None
    /\ is_optional(out.arg, StackLimit).res = Some(Reference("A"))

(***************************************************************************)
(* The shape of the setter argument of a type, with a Reference in the     *)
(* shape reference.                                                        *)
(***************************************************************************)
RECURSIVE Shape(_, _)

Shape(t, reference) ==
    CASE t[1] = "Primitive" ->
           IF t[2] \in {"String", "Binary", "Any"} THEN "Generic" ELSE "Simple"
      [] t[1] = "Optional" -> "Generic"
      [] t[1] \in {"List", "Set", "Map"} -> "Collection"
      [] t[1] = "Reference" -> reference
      [] t[1] = "External" -> Shape(t[2], reference)

SetterBoundsReturned == out.op = "setter_bounds" /\ ~out.ovf

PreludeForms ==
    {<<"Box", "std::boxed::Box">>, <<"Option", "std::option::Option">>,
     <<"String", "std::string::String">>, <<"Vec", "std::vec::Vec">>}

PreludeTokens == UNION {{p[1], p[2]} : p \in PreludeForms}

RECURSIVE Builtins(_)

\* The tokens of a type that are not part of a path.
Builtins(tokens) ==
    CASE tokens[1] = "super" -> {}
      [] tokens[1] = "BTreeMap" -> Builtins(tokens[2]) \cup Builtins(tokens[3])
      [] Len(tokens) = 2 -> {tokens[1]} \cup Builtins(tokens[2])
      [] OTHER -> {tokens[1]}

\* The type_ident of a declared type.
TypeIdent(n) == ToStr(type_name(name_(n)))

\* The token is the form of its built-in that is right in the module of
\* this_type: long if this_type is called as the built-in, short if not.
RightForm(token, this_type) ==
    \A p \in PreludeForms :
        token \in {p[1], p[2]} => token = (IF TypeIdent(this_type) = p[1] THEN p[2] ELSE p[1])

(***************************************************************************)
(* C27: whenever the type being emitted has a type_ident equal to a        *)
(* guarded short name, every reference to that built-in emitted for that   *)
(* type is in the long form, and in every other type in the short form:    *)
(* in the types rust_type and boxed_rust_type compute, the Box around      *)
(* boxed field storage included, and in the Box of a setter.               *)
(***************************************************************************)
C27_PreludeGuardedAgainstCurrentType ==
    /\ (out.op \in {"rust_type", "boxed_rust_type"} /\ ~out.ovf) =>
          \A token \in Builtins(out.res) \cap PreludeTokens : RightForm(token, out.this)
    /\ (out.op = "setter_bounds" /\ ~out.ovf /\ out.res.boxed) =>
          RightForm(out.res.box_, out.this)

(***************************************************************************)
(* The element types of a collection type and the collection setter bound  *)
(* of each: the item of a List or a Set, the key and the value of a Map.   *)
(***************************************************************************)
RECURSIVE Fallback(_)

\* The type an External type stands for.
Fallback(t) == IF t[1] = "External" THEN Fallback(t[2]) ELSE t

ElementTypes(t) ==
    IF Fallback(t)[1] = "Map" THEN <<Fallback(t)[2], Fallback(t)[3]>>
    ELSE <<Fallback(t)[2]>>

(***************************************************************************)
(* C30: for a List, Set or Map field whose element, key or value type is a *)
(* Reference to a declared type T, the element argument type of the        *)
(* collection setter is rust_type(owner, Reference(T)), the path-relative  *)
(* type_path(owner, T), for every pair of owner and T, in one package or   *)
(* in different packages and module depths.                                *)
(***************************************************************************)
C30_CollectionElementIsTypePath ==
    (out.op = "setter_bounds" /\ ~out.ovf /\ out.res.shape = "Collection") =>
        \A i \in DOMAIN ElementTypes(out.arg) :
            LET element == Fallback(ElementTypes(out.arg)[i]) IN
            element[1] = "Reference" =>
                /\ out.res.type_[i + 1].shape = "Simple"
                /\ out.res.type_[i + 1].argument = rust_type(out.this, element)
                /\ out.res.type_[i + 1].argument = type_path(out.this, element[2])

(***************************************************************************)
(* C28: for every type t, needs_box(t) implies not is_copy(t), whatever    *)
(* classification queries came before: what is_copy answers for a type     *)
(* that needs a Box, now and as its result when asked, is false; so an     *)
(* Object that derives Copy, all of its fields being is_copy, has no field *)
(* stored behind a Box.                                                    *)
(***************************************************************************)
C28_BoxedIsNeverCopy ==
    /\ \A t \in CopyTypes :
          (~needs_box(t, StackLimit).ovf /\ needs_box(t, StackLimit).res) =>
              /\ ~is_copy(IsCopyMemo, t, StackLimit).ovf
              /\ ~is_copy(IsCopyMemo, t, StackLimit).res
    /\ (out.op = "is_copy" /\ ~out.ovf /\ needs_box(out.arg, StackLimit).res) => ~out.res
    /\ \A n \in Names :
          (/\ types[n][1] = "Object"
           /\ \A t \in DefTypes(types[n]) :
                 /\ ~is_copy(IsCopyMemo, t, StackLimit).ovf
                 /\ is_copy(IsCopyMemo, t, StackLimit).res) =>
              \A t \in DefTypes(types[n]) : ~BoxInside(boxed_rust_type(n, t, StackLimit).res)

\* is_copy was asked about a reference to the object A, which needs a Box,
\* after it had answered for the alias B.
C28_Witness ==
    /\ out.op = "is_copy" /\ ~out.ovf
    /\ out.arg = Reference("A") /\ types["A"][1] = "Object"
    /\ needs_box(out.arg, StackLimit).res
    /\ ~out.res
    /\ is_copy_cell["B"] # None

(***************************************************************************)
(* The inherent methods of an emitted object.                              *)
(***************************************************************************)
\* The names of the accessors.
AccessorNames == {out.res.accessors[i].name : i \in DOMAIN out.res.accessors}

\* The names of the direct constructor, if it is emitted, and of the
\* builder entry point.
EntryNames ==
    {out.res.builder_method}
        \cup (IF out.res.constructor = None THEN {} ELSE {out.res.constructor[1].new_})

\* The field names of the emitted object are unique under snake-case
\* canonicalization.
SnakeCaseUnique ==
    LET fs == types[out.this][2] IN
    \A i, j \in DOMAIN fs :
        i # j => to_snake_case(chars(field_name(fs[i]))) # to_snake_case(chars(field_name(fs[j])))

(***************************************************************************)
(* C29: for every Object whose field names are unique under snake-case     *)
(* canonicalization, the names of the emitted inherent methods are         *)
(* pairwise distinct: each field has an accessor named field_ident of the  *)
(* field, no accessor is named as the direct constructor or as the builder *)
(* entry point, and the builder entry point is builder_ iff a field is     *)
(* named builder, and builder otherwise.                                   *)
(***************************************************************************)
C29_MethodNamesDistinct ==
    (EmittedBy("object::generate") /\ SnakeCaseUnique) =>
        LET fs == types[out.this][2] IN
        /\ \A i \in DOMAIN fs :
              out.res.accessors[i].name = ToStr(field_ident(chars(field_name(fs[i]))))
        /\ Cardinality(AccessorNames) = Len(fs)
        /\ AccessorNames \cap EntryNames = {}
        /\ out.res.builder_method
              = IF \E i \in DOMAIN fs : field_name(fs[i]) = "builder"
                THEN "builder_" ELSE "builder"

====
